---- MODULE Spec2Model ----
(***************************************************************************)
(* Model of the Obsidian exam-creator plugin (src/main.ts): the question   *)
(* parser, the exam session (ExamModal with its ConfirmModal) and the      *)
(* grading done at submission.                                             *)
(*                                                                         *)
(* A JavaScript string is a sequence of one-character strings, so that     *)
(* trimming, splitting, case folding and the regular expressions of the    *)
(* source are computed character by character.  An array of strings is a   *)
(* sequence of such sequences.  A value that may be undefined, a string or *)
(* an array (Question.userAnswer, Question.imageUrl) is a record           *)
(* [kind, val].                                                            *)
(***************************************************************************)
EXTENDS Integers, Sequences, FiniteSets, TLC

VARIABLES
    note,          \* content of the active file (string)
    preview,       \* the questions listed by the preview modal
    modal,         \* which modal of the plugin is open: "none", "exam", "results", "preview"
    confirmOpen,   \* a ConfirmModal is open on top of the ExamModal
    questions,     \* ExamModal.questions (each with its userAnswer)
    currentIndex,  \* ExamModal.currentIndex (0-based)
    checked,       \* option positions whose <input> is checked in the rendered card
    result,        \* the ExamResult handed to ResultsModal, or Undefined
    finalizeRuns,  \* number of times finalizeSubmission has been entered
    resultsMade,   \* number of ExamResult objects created
    thrown,        \* a handler of the session ended by throwing a TypeError
    lastNotice,    \* which Notice the plugin showed last
    settings,      \* ExamCreatorPlugin.settings
    fileQuestions, \* the array parseQuestions returned to startExamFromCurrentFile,
                   \* as the ExamModal constructor leaves it
    savedFile,     \* the wrong-answer note last written to the vault
    elapsed        \* whole minutes from ExamModal.startTime to Date.now()

vars == <<note, preview, modal, confirmOpen, questions, currentIndex, checked,
          result, finalizeRuns, resultsMade, thrown, lastNotice, settings,
          fileQuestions, savedFile, elapsed>>

----------------------------------------------------------------------------
(* Optional / union values *)

Undefined == [kind |-> "undefined", val |-> <<>>]
Str(s) == [kind |-> "string", val |-> s]
Arr(a) == [kind |-> "array", val |-> a]

----------------------------------------------------------------------------
(* Characters *)

UpperChars == <<"A","B","C","D","E","F","G","H","I","J","K","L","M",
                "N","O","P","Q","R","S","T","U","V","W","X","Y","Z">>
LowerChars == <<"a","b","c","d","e","f","g","h","i","j","k","l","m",
                "n","o","p","q","r","s","t","u","v","w","x","y","z">>
DigitChars == <<"0","1","2","3","4","5","6","7","8","9">>

Range(f) == {f[i] : i \in DOMAIN f}

IsUpper(c) == c \in Range(UpperChars)
IsDigit(c) == c \in Range(DigitChars)
IsSpace(c) == c \in {" ", "\n", "\t", "\r"}

\* String.prototype.toLowerCase / toUpperCase on one character
LowerChar(c) ==
    IF IsUpper(c) THEN LowerChars[CHOOSE i \in 1..26 : UpperChars[i] = c] ELSE c
UpperChar(c) ==
    IF c \in Range(LowerChars) THEN UpperChars[CHOOSE i \in 1..26 : LowerChars[i] = c] ELSE c

toLowerCase(s) == [i \in 1..Len(s) |-> LowerChar(s[i])]
toUpperCase(s) == [i \in 1..Len(s) |-> UpperChar(s[i])]

\* UTF-16 code unit order of the characters the model uses (ASCII order)
AsciiOrder == <<"\t", "\n", "\r", " ", "!", "(", ")", ",", "-", ".">> \o DigitChars
              \o <<":">> \o UpperChars \o <<"[", "]">> \o LowerChars
Code(c) == CHOOSE i \in 1..Len(AsciiOrder) : AsciiOrder[i] = c

\* a < b in the order Array.prototype.sort uses by default (code unit order)
RECURSIVE StrLess(_, _)
StrLess(a, b) ==
    IF b = <<>> THEN FALSE
    ELSE IF a = <<>> THEN TRUE
    ELSE IF Head(a) = Head(b) THEN StrLess(Tail(a), Tail(b))
    ELSE Code(Head(a)) < Code(Head(b))

----------------------------------------------------------------------------
(* String helpers *)

\* first position >= p of s that holds no whitespace (Len(s)+1 when none)
RECURSIVE SkipSpace(_, _)
SkipSpace(s, p) ==
    IF p <= Len(s) /\ IsSpace(s[p]) THEN SkipSpace(s, p + 1) ELSE p

\* last position <= p of s that holds no whitespace (0 when none)
RECURSIVE SkipSpaceBack(_, _)
SkipSpaceBack(s, p) ==
    IF p >= 1 /\ IsSpace(s[p]) THEN SkipSpaceBack(s, p - 1) ELSE p

\* String.prototype.trim
trim(s) == SubSeq(s, SkipSpace(s, 1), SkipSpaceBack(s, Len(s)))

\* s.substring(p-1): the rest of s from position p
From(s, p) == SubSeq(s, p, Len(s))

StartsWith(s, p, pre) ==
    /\ p + Len(pre) - 1 <= Len(s)
    /\ SubSeq(s, p, p + Len(pre) - 1) = pre

\* String.prototype.includes
includes(s, sub) == \E p \in 1..(Len(s) + 1) : StartsWith(s, p, sub)

\* first position >= p of s that holds no digit
RECURSIVE SkipDigits(_, _)
SkipDigits(s, p) ==
    IF p <= Len(s) /\ IsDigit(s[p]) THEN SkipDigits(s, p + 1) ELSE p

\* first position >= p of s that holds character c (Len(s)+1 when none)
RECURSIVE FindChar(_, _, _)
FindChar(s, p, c) ==
    IF p <= Len(s) /\ s[p] # c THEN FindChar(s, p + 1, c) ELSE p

\* s.split(c) for a one-character separator c
RECURSIVE splitChar(_, _)
splitChar(s, c) ==
    LET e == FindChar(s, 1, c) IN
    IF e > Len(s) THEN <<s>>
    ELSE <<SubSeq(s, 1, e - 1)>> \o splitChar(From(s, e + 1), c)

\* Array.prototype.join
RECURSIVE join(_, _)
join(a, sep) ==
    IF a = <<>> THEN <<>>
    ELSE IF Len(a) = 1 THEN a[1]
    ELSE a[1] \o sep \o join(Tail(a), sep)

\* Array.prototype.filter(l => l) on strings: drops the empty ones
RECURSIVE nonEmpty(_)
nonEmpty(a) ==
    IF a = <<>> THEN <<>>
    ELSE IF a[1] = <<>> THEN nonEmpty(Tail(a))
    ELSE <<a[1]>> \o nonEmpty(Tail(a))

\* insertion of x into the sorted array a
RECURSIVE insertSorted(_, _)
insertSorted(x, a) ==
    IF a = <<>> THEN <<x>>
    ELSE IF StrLess(x, a[1]) THEN <<x>> \o a
    ELSE <<a[1]>> \o insertSorted(x, Tail(a))

\* [...a].sort(): ascending in code unit order
RECURSIVE sort(_)
sort(a) == IF a = <<>> THEN <<>> ELSE insertSorted(a[1], sort(Tail(a)))

----------------------------------------------------------------------------
(* The regular expressions of the parser *)

\* MarkerAt for a pattern that matches at the start of a line only
MarkerAt_LineStart(s, p) ==
    /\ p <= Len(s)
    /\ s[p] = "Q"
    /\ p = 1 \/ s[p - 1] = "\n"
    /\ LET e == SkipDigits(s, p + 1) IN
          e > p + 1 /\ e <= Len(s) /\ s[e] = "."

\* /Q\d+\./ matches s at position p
MarkerAt(s, p) ==
    /\ p <= Len(s)
    /\ s[p] = "Q"
    /\ LET e == SkipDigits(s, p + 1) IN
          e > p + 1 /\ e <= Len(s) /\ s[e] = "."

\* content.split(/(?=Q\d+\.)/) from piece start p, scanning at q: the piece
\* ends before the next position from q on at which the pattern matches
RECURSIVE splitMarkersFrom(_, _, _)
splitMarkersFrom(s, p, q) ==
    LET matches == {m \in q..Len(s) : m # p /\ MarkerAt(s, m)}
    IN  IF matches = {} THEN <<SubSeq(s, p, Len(s))>>
        ELSE LET next == CHOOSE m \in matches : \A n \in matches : m <= n
             IN  <<SubSeq(s, p, next - 1)>> \o splitMarkersFrom(s, next, next + 1)

\* splitMarkers with a pattern that never matches: the content is one block
splitMarkers_Whole(content) == <<content>>

splitMarkers(content) == splitMarkersFrom(content, 1, 1)

\* (.*) from position p: up to the next line terminator
dotStar(s, p) ==
    LET e1 == FindChar(s, p, "\n")
        e2 == FindChar(s, p, "\r")
        e  == IF e1 < e2 THEN e1 ELSE e2
    IN SubSeq(s, p, e - 1)

NoMatch == [found |-> FALSE, start |-> 0, end |-> 0, url |-> <<>>]

\* imageAt taking the alternative text of a Markdown image for its target
imageAt_AltText(s, p) ==
    LET e == FindChar(s, p + 3, "]")
        b == FindChar(s, p + 2, "]")
        f == FindChar(s, b + 2, ")")
    IN  IF /\ StartsWith(s, p, <<"!", "[", "[">>)
           /\ e > p + 3
           /\ e + 1 <= Len(s)
           /\ s[e + 1] = "]"
        THEN [found |-> TRUE, start |-> p, end |-> e + 1, url |-> SubSeq(s, p + 3, e - 1)]
        ELSE IF /\ StartsWith(s, p, <<"!", "[">>)
                /\ b + 1 <= Len(s)
                /\ s[b + 1] = "("
                /\ f > b + 2
                /\ f <= Len(s)
        THEN [found |-> TRUE, start |-> p, end |-> f, url |-> SubSeq(s, p + 2, b - 1)]
        ELSE NoMatch

\* imagePattern tried at position p:
\*   !\[\[([^\]]+)\]\]  |  !\[([^\]]*)\]\(([^)]+)\)      url = m[1] || m[3]
imageAt(s, p) ==
    LET e == FindChar(s, p + 3, "]")      \* end of [^\]]+ of the first alternative
        b == FindChar(s, p + 2, "]")      \* end of [^\]]* of the second alternative
        f == FindChar(s, b + 2, ")")      \* end of [^)]+
    IN  IF /\ StartsWith(s, p, <<"!", "[", "[">>)
           /\ e > p + 3
           /\ e + 1 <= Len(s)
           /\ s[e + 1] = "]"
        THEN [found |-> TRUE, start |-> p, end |-> e + 1, url |-> SubSeq(s, p + 3, e - 1)]
        ELSE IF /\ StartsWith(s, p, <<"!", "[">>)
                /\ b + 1 <= Len(s)
                /\ s[b + 1] = "("
                /\ f > b + 2
                /\ f <= Len(s)
        THEN [found |-> TRUE, start |-> p, end |-> f, url |-> SubSeq(s, b + 2, f - 1)]
        ELSE NoMatch

\* line.match(imagePattern): the leftmost match
RECURSIVE imageFrom(_, _)
imageFrom(s, p) ==
    IF p > Len(s) THEN NoMatch
    ELSE IF imageAt(s, p).found THEN imageAt(s, p)
    ELSE imageFrom(s, p + 1)

imagePattern(s) == imageFrom(s, 1)

\* line.match(/^[A-Z]\.\s+/)
isOptionLine(line) ==
    /\ Len(line) >= 3
    /\ IsUpper(line[1])
    /\ line[2] = "."
    /\ IsSpace(line[3])

\* optionOf taking the whole line for the text of the option
optionOf_WholeLine(line) ==
    [letter |-> <<line[1]>>, text |-> dotStar(line, 1)]

\* the groups of line.match(/^([A-Z])\.\s+(.*)/)
optionOf(line) ==
    [letter |-> <<line[1]>>, text |-> dotStar(line, SkipSpace(line, 3))]

AnswerPrefix == <<"a", "n", "s", "w", "e", "r", ":">>

\* line.match(/^Answer:/i)
isAnswerLine(line) ==
    /\ Len(line) >= Len(AnswerPrefix)
    /\ toLowerCase(SubSeq(line, 1, Len(AnswerPrefix))) = AnswerPrefix

\* answerLine.match(/^Answer:\s*(.*)/i)[1].trim()
answerTextOf(line) ==
    trim(dotStar(line, SkipSpace(line, Len(AnswerPrefix) + 1)))

\* the tail (\s*,\s*[A-Z])*$ of the letter-list pattern from position p
RECURSIVE letterListTail(_, _)
letterListTail(s, p) ==
    IF p > Len(s) THEN TRUE
    ELSE LET c == SkipSpace(s, p)
             l == SkipSpace(s, c + 1)
         IN  /\ c <= Len(s)
             /\ s[c] = ","
             /\ l <= Len(s)
             /\ IsUpper(s[l])
             /\ letterListTail(s, l + 1)

\* answerText.match(/^[A-Z](\s*,\s*[A-Z])*$/)
isLetterList(s) ==
    /\ Len(s) >= 1
    /\ IsUpper(s[1])
    /\ letterListTail(s, 2)

\* a.match(/^[A-Z]$/)
isLetter(s) == Len(s) = 1 /\ IsUpper(s[1])

\* answerText.split(/\s*,\s*/) from piece start p, scanning at q
RECURSIVE splitCommaFrom(_, _, _)
splitCommaFrom(s, p, q) ==
    IF q > Len(s) THEN <<SubSeq(s, p, Len(s))>>
    ELSE LET c == SkipSpace(s, q) IN
         IF c <= Len(s) /\ s[c] = ","
         THEN <<SubSeq(s, p, q - 1)>>
              \o splitCommaFrom(s, SkipSpace(s, c + 1), SkipSpace(s, c + 1))
         ELSE splitCommaFrom(s, p, q + 1)

splitComma(s) == splitCommaFrom(s, 1, 1)

----------------------------------------------------------------------------
(* parseQuestionBlock and parseQuestions *)

\* what parseQuestionBlock returns for a block it gives up on
Null == [type |-> "null"]

MetaPhrase == <<"w","i","t","h"," ","i","m","a","g","e"," ","s","u","p","p","o","r","t">>

\* the first while loop of parseQuestionBlock: collects the question text, from
\* line i on, until an option line or an answer line (lines are numbered from 1)
RECURSIVE textLoop(_, _, _, _)
textLoop(lines, i, imageUrl, questionTextLines) ==
    IF i > Len(lines)
    THEN [i |-> i, imageUrl |-> imageUrl, questionTextLines |-> questionTextLines]
    ELSE LET line == lines[i]
             imgMatch == imagePattern(line)
         IN  IF imgMatch.found
             THEN textLoop(lines, i + 1, Str(imgMatch.url), questionTextLines)
             ELSE IF isOptionLine(line) \/ isAnswerLine(line)
             THEN [i |-> i, imageUrl |-> imageUrl, questionTextLines |-> questionTextLines]
             ELSE IF imagePattern(line).found
             THEN textLoop(lines, i + 1, Str(imagePattern(line).url), questionTextLines)
             ELSE IF includes(toLowerCase(line), MetaPhrase)
             THEN textLoop(lines, i + 1, imageUrl, questionTextLines)
             ELSE textLoop(lines, i + 1, imageUrl, Append(questionTextLines, line))

\* the second while loop: collects the options from line i on, until the
\* answer line; answerLineIndex is 0 when there is none (-1 in the source)
RECURSIVE optionLoop(_, _, _)
optionLoop(lines, i, options) ==
    IF i > Len(lines) THEN [options |-> options, answerLineIndex |-> 0]
    ELSE IF isAnswerLine(lines[i]) THEN [options |-> options, answerLineIndex |-> i]
    ELSE IF isOptionLine(lines[i])
         THEN optionLoop(lines, i + 1, Append(options, optionOf(lines[i])))
         ELSE optionLoop(lines, i + 1, options)

\* answersOf with the letter patterns matched without regard to case
answersOf_IgnoreCase(answerText) ==
    IF isLetterList(toUpperCase(answerText))
    THEN LET parts == splitComma(answerText)
         IN  [k \in 1..Len(parts) |-> toUpperCase(trim(parts[k]))]
    ELSE IF isLetter(toUpperCase(answerText)) THEN <<toUpperCase(answerText)>>
    ELSE <<answerText>>

\* correctAnswers from the text after Answer:
answersOf(answerText) ==
    IF isLetterList(answerText)
    THEN LET parts == splitComma(answerText)
         IN  [k \in 1..Len(parts) |-> toUpperCase(trim(parts[k]))]
    ELSE IF isLetter(answerText) THEN <<toUpperCase(answerText)>>
    ELSE <<answerText>>

\* typeOf with the length test off by one
typeOf_AtLeastOne(options, correctAnswers) ==
    IF Len(options) = 0 THEN "freetext"
    ELSE IF /\ Len(correctAnswers) >= 1
            /\ \A k \in 1..Len(correctAnswers) : isLetter(correctAnswers[k])
         THEN "multiple"
         ELSE "single"

\* the type of a question with these options and correct answers
typeOf(options, correctAnswers) ==
    IF Len(options) = 0 THEN "freetext"
    ELSE IF /\ Len(correctAnswers) > 1
            /\ \A k \in 1..Len(correctAnswers) : isLetter(correctAnswers[k])
         THEN "multiple"
         ELSE "single"

\* embeddedImage overwriting an image already captured
embeddedImage_Overwrite(questionText, imageUrl) ==
    LET textImgMatch == imagePattern(questionText)
    IN  IF textImgMatch.found
        THEN [imageUrl |-> Str(textImgMatch.url),
              questionText |-> trim(SubSeq(questionText, 1, textImgMatch.start - 1)
                                    \o From(questionText, textImgMatch.end + 1))]
        ELSE [imageUrl |-> imageUrl, questionText |-> questionText]

\* the check of the joined question text for an embedded image:
\* if (textImgMatch && !imageUrl) { imageUrl = ...; questionText =
\* questionText.replace(imagePattern, '').trim() }; replace with a pattern
\* without the g flag takes out the leftmost match only
embeddedImage(questionText, imageUrl) ==
    LET textImgMatch == imagePattern(questionText)
    IN  IF textImgMatch.found /\ imageUrl.kind = "undefined"
        THEN [imageUrl |-> Str(textImgMatch.url),
              questionText |-> trim(SubSeq(questionText, 1, textImgMatch.start - 1)
                                    \o From(questionText, textImgMatch.end + 1))]
        ELSE [imageUrl |-> imageUrl, questionText |-> questionText]

parseQuestionBlock(block) ==
    LET split == splitChar(block, "\n")
        lines == nonEmpty([k \in 1..Len(split) |-> trim(split[k])])
    IN  IF Len(lines) = 0 THEN Null
        ELSE
        LET firstLine == lines[1]
            idEnd == SkipDigits(firstLine, 2)       \* position of the dot of Q(\d+)\.
        IN  IF ~MarkerAt(firstLine, 1) THEN Null
            ELSE
            LET id == SubSeq(firstLine, 2, idEnd - 1)
                firstText == dotStar(firstLine, SkipSpace(firstLine, idEnd + 1))
                t == textLoop(lines, 2, Undefined, <<firstText>>)
                joined == trim(join(t.questionTextLines, <<" ">>))
                e == embeddedImage(joined, t.imageUrl)
                imageUrl == e.imageUrl
                questionText == e.questionText
                o == optionLoop(lines, t.i, <<>>)
                correctAnswers ==
                    IF o.answerLineIndex >= 1
                    THEN answersOf(answerTextOf(lines[o.answerLineIndex]))
                    ELSE <<>>
            IN  [id |-> id,
                 text |-> questionText,
                 imageUrl |-> imageUrl,
                 options |-> o.options,
                 correctAnswers |-> correctAnswers,
                 type |-> typeOf(o.options, correctAnswers),
                 userAnswer |-> Undefined]

\* the for loop of parseQuestions over the blocks
RECURSIVE parseBlocks(_)
parseBlocks(questionBlocks) ==
    IF questionBlocks = <<>> THEN <<>>
    ELSE LET trimmed == trim(questionBlocks[1])
             rest == parseBlocks(Tail(questionBlocks))
         IN  IF trimmed = <<>> \/ ~MarkerAt(trimmed, 1) THEN rest
             ELSE LET question == parseQuestionBlock(trimmed)
                  IN  IF question.type = "null" THEN rest ELSE <<question>> \o rest

parseQuestions(content) == parseBlocks(splitMarkers(content))

----------------------------------------------------------------------------
(* shuffleArray *)

\* RandomDraws drawing every j from the whole array, 0 .. n-1
RandomDraws_Naive(n) == [1..(n - 1) -> 0..(n - 1)]

\* the draws Math.floor(Math.random() * (i + 1)) for i = n-1 .. 1 (0-based i)
RandomDraws(n) == {rnd \in [1..(n - 1) -> 0..(n - 1)] : \A i \in 1..(n - 1) : rnd[i] <= i}

\* the for loop of shuffleArray from index i down (0-based i and j)
RECURSIVE shuffleLoop(_, _, _)
shuffleLoop(shuffled, i, rnd) ==
    IF i <= 0 THEN shuffled
    ELSE LET j == rnd[i]
         IN  shuffleLoop([shuffled EXCEPT ![i + 1] = shuffled[j + 1],
                                          ![j + 1] = shuffled[i + 1]],
                         i - 1, rnd)

shuffleArray(array, rnd) == shuffleLoop(array, Len(array) - 1, rnd)

----------------------------------------------------------------------------
(* Grading: the three routines of the source, each from its own lines *)

\* isUnanswered without the test for an empty array
isUnanswered_NoArrayTest(q) ==
    \/ q.userAnswer.kind = "undefined"
    \/ q.userAnswer.kind = "string" /\ q.userAnswer.val = <<>>

\* !q.userAnswer || (Array.isArray(q.userAnswer) && q.userAnswer.length === 0)
\*               || q.userAnswer === ''
isUnanswered(q) ==
    \/ q.userAnswer.kind = "undefined"
    \/ q.userAnswer.kind = "string" /\ q.userAnswer.val = <<>>
    \/ q.userAnswer.kind = "array" /\ Len(q.userAnswer.val) = 0

\* Array.isArray(q.userAnswer) ? q.userAnswer : [q.userAnswer]
asArray(userAnswer) ==
    IF userAnswer.kind = "array" THEN userAnswer.val ELSE <<userAnswer.val>>

\* the comparison of the freetext branch; "TypeError" when toLowerCase is
\* called on undefined (correctAnswers[0] of an empty array) or on an array
freetextEqual(q) ==
    IF q.userAnswer.kind # "string" \/ Len(q.correctAnswers) = 0 THEN "TypeError"
    ELSE IF trim(toLowerCase(q.userAnswer.val)) = trim(toLowerCase(q.correctAnswers[1]))
         THEN "equal" ELSE "different"

\* the comparison of the choice branch: sorted, comma-joined texts
choiceEqual(q) ==
    LET sortedUser == join(sort(asArray(q.userAnswer)), <<",">>)
        sortedCorrect == join(sort(q.correctAnswers), <<",">>)
    IN  IF sortedUser = sortedCorrect THEN "equal" ELSE "different"

\* the body of this.questions.forEach in finalizeSubmission, for one question:
\* which counter it increments, or "TypeError" when it throws
finalizeOne(q) ==
    IF isUnanswered(q) THEN "skipped"
    ELSE LET eq == IF q.type = "freetext" THEN freetextEqual(q) ELSE choiceEqual(q)
         IN  IF eq = "TypeError" THEN eq
             ELSE IF eq = "equal" THEN "correct" ELSE "wrong"

\* FullReviewModal.getQuestionStatus
getQuestionStatus(q) ==
    IF \/ q.userAnswer.kind = "undefined"
       \/ q.userAnswer.kind = "array" /\ Len(q.userAnswer.val) = 0
       \/ q.userAnswer.kind = "string" /\ q.userAnswer.val = <<>>
    THEN "skipped"
    ELSE IF q.type = "freetext"
    THEN IF q.userAnswer.kind # "string" \/ Len(q.correctAnswers) = 0 THEN "TypeError"
         ELSE IF trim(toLowerCase(q.userAnswer.val)) = trim(toLowerCase(q.correctAnswers[1]))
              THEN "correct" ELSE "wrong"
    ELSE IF join(sort(asArray(q.userAnswer)), <<",">>) = join(sort(q.correctAnswers), <<",">>)
         THEN "correct" ELSE "wrong"

\* FullReviewModal.getCounts: one counter per status, skipped for whatever is
\* neither correct nor wrong
RECURSIVE getCounts(_)
getCounts(qs) ==
    IF qs = <<>> THEN [correct |-> 0, wrong |-> 0, skipped |-> 0]
    ELSE LET status == getQuestionStatus(qs[Len(qs)])
             before == getCounts(SubSeq(qs, 1, Len(qs) - 1))
         IN  IF status = "correct" THEN [before EXCEPT !.correct = @ + 1]
             ELSE IF status = "wrong" THEN [before EXCEPT !.wrong = @ + 1]
             ELSE [before EXCEPT !.skipped = @ + 1]

\* the filter predicate of ResultsModal.saveWrongAnswersToFile:
\* "keep", "drop", or "TypeError" when it throws
wrongFilter(q) ==
    IF \/ q.userAnswer.kind = "undefined"
       \/ q.userAnswer.kind = "array" /\ Len(q.userAnswer.val) = 0
       \/ q.userAnswer.kind = "string" /\ q.userAnswer.val = <<>>
    THEN "keep"
    ELSE IF q.type = "freetext"
    THEN IF q.userAnswer.kind # "string" \/ Len(q.correctAnswers) = 0 THEN "TypeError"
         ELSE IF trim(toLowerCase(q.userAnswer.val)) # trim(toLowerCase(q.correctAnswers[1]))
              THEN "keep" ELSE "drop"
    ELSE IF join(sort(asArray(q.userAnswer)), <<",">>) # join(sort(q.correctAnswers), <<",">>)
         THEN "keep" ELSE "drop"

\* Count for a loop that stops counting at the first wrong question
RECURSIVE Count_UntilWrong(_, _)
Count_UntilWrong(qs, status) ==
    IF qs = <<>> \/ finalizeOne(qs[1]) = "wrong" THEN 0
    ELSE (IF finalizeOne(qs[1]) = status THEN 1 ELSE 0) + Count_UntilWrong(Tail(qs), status)

\* the counter of finalizeSubmission for status once forEach has gone through
\* qs from the first question to the last, one increment per question
RECURSIVE Count(_, _)
Count(qs, status) ==
    IF qs = <<>> THEN 0
    ELSE (IF finalizeOne(qs[1]) = status THEN 1 ELSE 0) + Count(Tail(qs), status)

\* Numbers of the source are IEEE 754 doubles: (correct / total) * 100 rounds
\* twice, after the division and after the multiplication.  A positive double
\* is a record [m1, m2, m3, exp] standing for mant * 2^(exp - 52), where the
\* 53-bit mantissa mant = m1 * 2^36 + m2 * 2^18 + m3 is cut into a high limb
\* m1 of 17 bits, leading bit 1, and two limbs of 18 bits.

LimbBits == 18

RECURSIVE pow2(_)
pow2(e) == IF e = 0 THEN 1 ELSE 2 * pow2(e - 1)

Limb == pow2(LimbBits)
HighLimb == pow2(LimbBits - 1)

\* round-to-nearest, ties-to-even: the mantissa taken up by one when the bit
\* below it (guard) is set and either something lies below that (sticky) or
\* the mantissa is odd
roundDouble(m1, m2, m3, exp, guard, sticky) ==
    LET up == guard = 1 /\ (sticky \/ m3 % 2 = 1)
        s3 == m3 + (IF up THEN 1 ELSE 0)
        s2 == m2 + s3 \div Limb
        s1 == m1 + s2 \div Limb
    IN  IF s1 = HighLimb
        THEN [m1 |-> HighLimb \div 2, m2 |-> 0, m3 |-> 0, exp |-> exp + 1]
        ELSE [m1 |-> s1, m2 |-> s2 % Limb, m3 |-> s3 % Limb, exp |-> exp]

\* the least e >= 0 with c * 2^e >= n
RECURSIVE normalizeShift(_, _)
normalizeShift(c, n) == IF c >= n THEN 0 ELSE 1 + normalizeShift(2 * c, n)

\* the double c / n, for integers 1 <= c <= n < 2^13: long division, the
\* leading bit first, then 16, 18 and 18 quotient bits and the guard bit
divide(c, n) ==
    LET e  == normalizeShift(c, n)
        r0 == c * pow2(e) - n
        t1 == r0 * (HighLimb \div 2)
        t2 == (t1 % n) * Limb
        t3 == (t2 % n) * Limb
        t4 == (t3 % n) * 2
    IN  roundDouble(HighLimb \div 2 + t1 \div n, t2 \div n, t3 \div n, -e,
                    t4 \div n, t4 % n # 0)

\* the double x * 100: the exact product has 59 or 60 bits, of which the
\* lowest 6 or 7 are rounded away
times100(x) ==
    LET p3 == x.m3 * 100
        p2 == x.m2 * 100 + p3 \div Limb
        l1 == x.m1 * 100 + p2 \div Limb
        l2 == p2 % Limb
        l3 == p3 % Limb
        d  == IF l1 >= 128 * (HighLimb \div 2) THEN 7 ELSE 6
        cut == pow2(d)
        keep == pow2(LimbBits - d)
    IN  roundDouble(l1 \div cut,
                    (l1 % cut) * keep + l2 \div cut,
                    (l2 % cut) * keep + l3 \div cut,
                    x.exp + d,
                    (l3 \div (cut \div 2)) % 2,
                    l3 % (cut \div 2) # 0)

\* Math.round(x) for a double x below 2^16: the integer part, plus one when
\* the fraction is a half or more
mathRound(x) ==
    IF x.exp < -1 THEN 0
    ELSE IF x.exp = -1 THEN 1
    ELSE x.m1 \div pow2(LimbBits - 2 - x.exp)
         + ((x.m1 \div pow2(LimbBits - 3 - x.exp)) % 2)

\* Math.round(NaN)
NaN == -1

\* Math.round((correct / total) * 100), for 0 <= correct <= total
percentageOf(correct, total) ==
    IF total = 0 THEN NaN
    ELSE IF correct = 0 THEN 0
    ELSE mathRound(times100(divide(correct, total)))

\* ExamResult with the skipped questions counted as wrong as well
ExamResult_SkippedAlsoWrong(qs) ==
    [kind |-> "result",
     totalQuestions |-> Len(qs),
     correctAnswers |-> Count(qs, "correct"),
     wrongAnswers |-> Len(qs) - Count(qs, "correct"),
     skipped |-> Count(qs, "skipped"),
     percentage |-> percentageOf(Count(qs, "correct"), Len(qs))]

\* the ExamResult built by finalizeSubmission; its questions are this.questions
\* itself (the same array), which the model keeps in the variable questions
ExamResult(qs) ==
    [kind |-> "result",
     totalQuestions |-> Len(qs),
     correctAnswers |-> Count(qs, "correct"),
     wrongAnswers |-> Count(qs, "wrong"),
     skipped |-> Count(qs, "skipped"),
     percentage |-> percentageOf(Count(qs, "correct"), Len(qs))]

NoResult == [kind |-> "undefined"]

\* ResultsModal.onOpen: the label of the score circle
scoreLabel(percentage) == IF percentage >= 70 THEN "PASSED" ELSE "FAILED"

----------------------------------------------------------------------------
(* The exam session: ExamModal, ConfirmModal, ResultsModal *)

DEFAULT_SETTINGS ==
    [shuffleQuestions |-> FALSE,
     shuffleAnswers |-> FALSE,
     showTimer |-> TRUE,
     defaultTimeLimit |-> 0,
     showImmediateFeedback |-> FALSE]

\* bound on the number of times Submit may lead into finalizeSubmission
MaxFinalizeRuns == 2

\* the k-th smallest element of a finite set of integers
RECURSIVE Nth(_, _)
Nth(set, k) ==
    LET m == CHOOSE x \in set : \A y \in set : x <= y
    IN  IF k = 1 THEN m ELSE Nth(set \ {m}, k - 1)

\* Array.from(checked).map(c => c.value): the letters of the checked inputs,
\* in document order
checkedValues(options, boxes) ==
    [k \in 1..Cardinality(boxes) |-> options[Nth(boxes, k)].letter]

\* the inputs renderQuestion leaves checked when it draws the card of q: the
\* options whose letter is in the answer; radio inputs share one name, so of
\* several only the last stays checked
renderChecked(q) ==
    IF \/ q.type = "freetext"
       \/ q.userAnswer.kind = "undefined"
       \/ q.userAnswer.kind = "string" /\ q.userAnswer.val = <<>>
    THEN {}
    ELSE LET answers == asArray(q.userAnswer)
             hits == {k \in 1..Len(q.options) :
                        \E a \in 1..Len(answers) : answers[a] = q.options[k].letter}
         IN  IF q.type = "multiple" \/ hits = {} THEN hits
             ELSE {CHOOSE k \in hits : \A h \in hits : h <= k}

\* inputAfterShuffle for a loop that swaps the elements of array itself
inputAfterShuffle_InPlace(array, rnd) == shuffleArray(array, rnd)

\* the array handed to shuffleArray once it has returned: the loop swaps the
\* elements of the copy [...array], never those of array
inputAfterShuffle(array, rnd) == array

\* one random draw sequence per question, for shuffling its options
OptionDraws(qs) ==
    {f \in [1..Len(qs) -> UNION {RandomDraws(Len(qs[k].options)) : k \in 1..Len(qs)}] :
        \A k \in 1..Len(qs) : f[k] \in RandomDraws(Len(qs[k].options))}

\* the question array the ExamModal constructor builds
prepareQuestions(qs, shuffleQuestions, shuffleAnswers, rndQ, rndA) ==
    LET ordered == IF shuffleQuestions THEN shuffleArray(qs, rndQ) ELSE qs
    IN  IF shuffleAnswers
        THEN [k \in 1..Len(ordered) |->
                 [ordered[k] EXCEPT !.options = shuffleArray(ordered[k].options, rndA[k])]]
        ELSE ordered

\* the array handed to the ExamModal constructor once it has returned; the
\* map over this.questions builds new objects { ...q, options }
argumentAfterConstructor(qs, shuffleQuestions, shuffleAnswers, rndQ, rndA) ==
    LET left == IF shuffleQuestions THEN inputAfterShuffle(qs, rndQ) ELSE qs
        ordered == IF shuffleQuestions THEN shuffleArray(qs, rndQ) ELSE qs
        \* position in this.questions of the object at position k of qs
        at(k) == CHOOSE m \in 1..Len(ordered) : ordered[m] = left[k]
    IN  IF shuffleAnswers
        THEN [k \in 1..Len(left) |->
                 [left[k] EXCEPT !.options =
                     inputAfterShuffle(left[k].options, rndA[at(k)])]]
        ELSE left

NoSession ==
    /\ confirmOpen = FALSE
    /\ questions = <<>>
    /\ currentIndex = 0
    /\ checked = {}
    /\ result = NoResult
    /\ finalizeRuns = 0
    /\ resultsMade = 0
    /\ thrown = FALSE
    /\ fileQuestions = <<>>
    /\ elapsed = 0

sessionVars == <<confirmOpen, questions, currentIndex, checked, result,
                 finalizeRuns, resultsMade, thrown, fileQuestions, elapsed>>

\* the modal of the session is gone, and the session's objects with it
EndSession ==
    /\ modal' = "none"
    /\ confirmOpen' = FALSE
    /\ questions' = <<>>
    /\ currentIndex' = 0
    /\ checked' = {}
    /\ result' = NoResult
    /\ finalizeRuns' = 0
    /\ resultsMade' = 0
    /\ thrown' = FALSE
    /\ fileQuestions' = <<>>
    /\ elapsed' = 0

\* startExamFromCurrentFile, with the ExamModal constructor and onOpen
StartExam ==
    /\ modal = "none"
    /\ UNCHANGED <<note, preview, settings, savedFile>>
    /\ IF note.kind = "undefined"
       THEN /\ lastNotice' = "noActiveFile"
            /\ UNCHANGED <<modal, sessionVars>>
       ELSE \E parsed \in {parseQuestions(note.val)} :
            IF Len(parsed) = 0
            THEN /\ lastNotice' = "noQuestionsFound"
                 /\ UNCHANGED <<modal, sessionVars>>
            ELSE /\ lastNotice' = "startingExam"
                 /\ modal' = "exam"
                 /\ \E rndQ \in (IF settings.shuffleQuestions
                                 THEN RandomDraws(Len(parsed)) ELSE {<<>>}) :
                    \E ordered \in {prepareQuestions(parsed, settings.shuffleQuestions,
                                                     FALSE, rndQ, <<>>)} :
                    \E rndA \in (IF settings.shuffleAnswers
                                 THEN OptionDraws(ordered) ELSE {<<>>}) :
                       /\ questions' = prepareQuestions(parsed, settings.shuffleQuestions,
                                                        settings.shuffleAnswers, rndQ, rndA)
                       /\ fileQuestions' =
                              argumentAfterConstructor(parsed, settings.shuffleQuestions,
                                                       settings.shuffleAnswers, rndQ, rndA)
                 /\ currentIndex' = 0
                 /\ elapsed' = 0
                 /\ checked' = renderChecked(questions'[1])
                 /\ UNCHANGED <<confirmOpen, result, finalizeRuns, resultsMade, thrown>>

\* the exam card accepts input: the ExamModal is the topmost modal
ExamActive == modal = "exam" /\ ~confirmOpen

\* input.onchange of option k (counted from 1) of the current question
ChooseOption(k) ==
    /\ ExamActive
    /\ LET q == questions[currentIndex + 1] IN
       /\ q.type # "freetext"
       /\ k \in 1..Len(q.options)
       /\ IF q.type = "multiple"
          THEN LET boxes == (checked \ {k}) \cup ({k} \ checked) IN
               /\ checked' = boxes
               /\ questions' = [questions EXCEPT ![currentIndex + 1].userAnswer =
                                   Arr(checkedValues(q.options, boxes))]
          ELSE /\ k \notin checked
               /\ checked' = {k}
               /\ questions' = [questions EXCEPT ![currentIndex + 1].userAnswer =
                                   Arr(<<q.options[k].letter>>)]
    /\ UNCHANGED <<note, preview, modal, confirmOpen, currentIndex, result,
                   finalizeRuns, resultsMade, thrown, lastNotice, settings,
                   fileQuestions, savedFile, elapsed>>

\* the value the textarea of freetext question q shows
textareaValue(q) == IF q.userAnswer.kind = "string" THEN q.userAnswer.val ELSE <<>>

\* input.oninput of the textarea: the user changes its value to text
TypeAnswer(text) ==
    /\ ExamActive
    /\ LET q == questions[currentIndex + 1] IN
       /\ q.type = "freetext"
       /\ text # textareaValue(q)
       /\ questions' = [questions EXCEPT ![currentIndex + 1].userAnswer = Str(text)]
    /\ UNCHANGED <<note, preview, modal, confirmOpen, currentIndex, checked, result,
                   finalizeRuns, resultsMade, thrown, lastNotice, settings,
                   fileQuestions, savedFile, elapsed>>

navUnchanged == <<note, preview, modal, confirmOpen, questions, result,
                  finalizeRuns, resultsMade, thrown, lastNotice, settings,
                   fileQuestions, savedFile, elapsed>>

\* goToPrevious
GoToPrevious ==
    /\ ExamActive
    /\ IF currentIndex > 0
       THEN /\ currentIndex' = currentIndex - 1
            /\ checked' = renderChecked(questions[currentIndex' + 1])
       ELSE UNCHANGED <<currentIndex, checked>>
    /\ UNCHANGED navUnchanged

\* goToNext
GoToNext ==
    /\ ExamActive
    /\ IF currentIndex < Len(questions) - 1
       THEN /\ currentIndex' = currentIndex + 1
            /\ checked' = renderChecked(questions[currentIndex' + 1])
       ELSE UNCHANGED <<currentIndex, checked>>
    /\ UNCHANGED navUnchanged

\* goToQuestion(index), from gridItem.onclick of the sidebar
GoToQuestion(index) ==
    /\ ExamActive
    /\ index \in 0..(Len(questions) - 1)
    /\ currentIndex' = index
    /\ checked' = renderChecked(questions[index + 1])
    /\ UNCHANGED navUnchanged

\* JumpTo accepting the number 0 as well
JumpTo_FromZero(num) ==
    /\ ExamActive
    /\ IF num >= 0 /\ num <= Len(questions)
       THEN /\ currentIndex' = num - 1
            /\ checked' = IF num = 0 THEN {} ELSE renderChecked(questions[num])
       ELSE UNCHANGED <<currentIndex, checked>>
    /\ UNCHANGED navUnchanged

\* jumpInput.onchange with the number num typed into the go-to field
JumpTo(num) ==
    /\ ExamActive
    /\ IF num >= 1 /\ num <= Len(questions)
       THEN /\ currentIndex' = num - 1
            /\ checked' = renderChecked(questions[num])
       ELSE UNCHANGED <<currentIndex, checked>>
    /\ UNCHANGED navUnchanged

\* finalizeSubmission: throws out of the forEach when a question throws, and
\* otherwise closes the ExamModal and opens the ResultsModal on the result
finalizeSubmission ==
    /\ finalizeRuns' = finalizeRuns + 1
    /\ IF \E k \in 1..Len(questions) : finalizeOne(questions[k]) = "TypeError"
       THEN /\ thrown' = TRUE
            /\ UNCHANGED <<modal, result, resultsMade>>
       ELSE /\ result' = ExamResult(questions)
            /\ resultsMade' = resultsMade + 1
            /\ modal' = "results"
            /\ UNCHANGED thrown

\* the number submitExam reports as unanswered
unanswered(qs) == Cardinality({k \in 1..Len(qs) : isUnanswered(qs[k])})

\* submitExam, from submitBtn.onclick
SubmitExam ==
    /\ ExamActive
    /\ finalizeRuns < MaxFinalizeRuns
    /\ IF unanswered(questions) > 0
       THEN /\ confirmOpen' = TRUE
            /\ UNCHANGED <<modal, result, finalizeRuns, resultsMade, thrown>>
       ELSE /\ finalizeSubmission
            /\ UNCHANGED confirmOpen
    /\ UNCHANGED <<note, preview, questions, currentIndex, checked, lastNotice, settings,
                   fileQuestions, savedFile, elapsed>>

\* cancelBtn.onclick of the ConfirmModal
ConfirmCancel ==
    /\ modal = "exam"
    /\ confirmOpen
    /\ confirmOpen' = FALSE
    /\ UNCHANGED <<note, preview, modal, questions, currentIndex, checked, result,
                   finalizeRuns, resultsMade, thrown, lastNotice, settings,
                   fileQuestions, savedFile, elapsed>>

\* confirmBtn.onclick of the ConfirmModal: close, then onConfirm
ConfirmSubmit ==
    /\ modal = "exam"
    /\ confirmOpen
    /\ confirmOpen' = FALSE
    /\ finalizeSubmission
    /\ UNCHANGED <<note, preview, questions, currentIndex, checked, lastNotice, settings,
                   fileQuestions, savedFile, elapsed>>

\* the user closes the ExamModal without submitting (ExamModal.onClose)
CloseExam ==
    /\ ExamActive
    /\ EndSession
    /\ UNCHANGED <<note, preview, lastNotice, settings, savedFile>>

\* closeBtn.onclick of the ResultsModal
CloseResults ==
    /\ modal = "results"
    /\ EndSession
    /\ UNCHANGED <<note, preview, lastNotice, settings, savedFile>>

\* no wrong-answer note has been written
NoFile == [kind |-> "undefined"]

AnswerLabel == <<"A","n","s","w","e","r",":"," ">>
YourAnswerLabel == <<"Y","o","u","r"," ","a","n","s","w","e","r",":"," ">>
SkippedMark == <<"(","s","k","i","p","p","e","d",")">>

\* the lines saveWrongAnswersToFile appends about the response of q: a
\* userAnswer that is truthy (a non-empty string, or any array) is joined and
\* written only if the joined text is itself non-empty
yourAnswerLines(q) ==
    IF q.userAnswer.kind = "undefined" \/ q.userAnswer = Str(<<>>)
    THEN <<YourAnswerLabel \o SkippedMark>>
    ELSE LET userAns == IF q.userAnswer.kind = "array"
                        THEN join(q.userAnswer.val, <<",", " ">>)
                        ELSE q.userAnswer.val
         IN  IF userAns # <<>> THEN <<YourAnswerLabel \o userAns>> ELSE <<>>

\* the lines saveWrongAnswersToFile appends for question q, the last one the
\* empty line that separates it from the next question
reportEntry(q) ==
    <<(<<"Q">> \o q.id \o <<".", " ">> \o q.text)>>
    \o [k \in 1..Len(q.options) |->
            q.options[k].letter \o <<".", " ">> \o q.options[k].text]
    \o <<AnswerLabel \o join(q.correctAnswers, <<",", " ">>)>>
    \o yourAnswerLines(q)
    \o <<(<<>>)>>

\* this.result.questions.filter(...): the questions the report is about
RECURSIVE wrongQuestions(_)
wrongQuestions(qs) ==
    IF qs = <<>> THEN <<>>
    ELSE IF wrongFilter(qs[1]) = "keep" THEN <<qs[1]>> \o wrongQuestions(Tail(qs))
    ELSE wrongQuestions(Tail(qs))

\* the lines of the report after its heading, question by question
RECURSIVE reportLines(_)
reportLines(qs) ==
    IF qs = <<>> THEN <<>> ELSE reportEntry(qs[1]) \o reportLines(Tail(qs))

\* Number.prototype.toString for an integer n >= 0: its decimal digits
RECURSIVE numberToString(_)
numberToString(n) ==
    IF n < 10 THEN <<DigitChars[n + 1]>>
    ELSE numberToString(n \div 10) \o <<DigitChars[(n % 10) + 1]>>

\* new Date().toLocaleString() at the time of saving, here in the en-US form
GeneratedAt == <<"1","1","/","3","/","2","0","2","6",","," ","1",":","0","0",":","0","0"," ","P","M">>

\* the content saveWrongAnswersToFile hands to the vault for the note file:
\* the title, the Generated and Score lines, the rule, and the entries, every
\* line ended by a line feed
reportContent(file) ==
    join(<<<<"#"," ","W","r","o","n","g","/","S","k","i","p","p","e","d"," ","Q","u","e","s","t","i","o","n","s"," ","-"," ","R","e","v","i","e","w">>,
           <<>>,
           <<"G","e","n","e","r","a","t","e","d",":"," ">> \o GeneratedAt,
           <<"S","c","o","r","e",":"," ">> \o numberToString(file.percentage) \o <<"%", " ", "(">>
               \o numberToString(file.correctAnswers) \o <<"/">>
               \o numberToString(file.totalQuestions) \o <<")">>,
           <<>>,
           <<"-", "-", "-">>,
           <<>>>> \o file.lines \o <<(<<>>)>>, <<"\n">>)

\* saveBtn.onclick of the ResultsModal (the button exists only when the result
\* counts a wrong or skipped question): saveWrongAnswersToFile; created tells
\* whether the vault accepted the file
SaveWrongAnswers ==
    /\ modal = "results"
    /\ result.wrongAnswers > 0 \/ result.skipped > 0
    /\ IF \E k \in 1..Len(questions) : wrongFilter(questions[k]) = "TypeError"
       THEN /\ thrown' = TRUE
            /\ UNCHANGED <<lastNotice, savedFile>>
       ELSE /\ UNCHANGED thrown
            /\ IF wrongQuestions(questions) = <<>>
               THEN /\ lastNotice' = "noWrongAnswers"
                    /\ UNCHANGED savedFile
               ELSE \E created \in BOOLEAN :
                       IF created
                       THEN /\ lastNotice' = "saved"
                            /\ savedFile' =
                                  [kind |-> "file",
                                   percentage |-> result.percentage,
                                   correctAnswers |-> result.correctAnswers,
                                   totalQuestions |-> result.totalQuestions,
                                   lines |-> reportLines(wrongQuestions(questions))]
                       ELSE /\ lastNotice' = "failedToSave"
                            /\ UNCHANGED savedFile
    /\ UNCHANGED <<note, preview, modal, confirmOpen, questions, currentIndex, checked,
                   result, finalizeRuns, resultsMade, settings, fileQuestions, elapsed>>

\* onChange of the 'Shuffle questions' toggle of the settings tab
ToggleShuffleQuestions ==
    /\ modal = "none"
    /\ settings' = [settings EXCEPT !.shuffleQuestions = ~settings.shuffleQuestions]
    /\ UNCHANGED <<note, preview, modal, sessionVars, lastNotice, savedFile>>

\* onChange of the 'Shuffle answers' toggle of the settings tab
ToggleShuffleAnswers ==
    /\ modal = "none"
    /\ settings' = [settings EXCEPT !.shuffleAnswers = ~settings.shuffleAnswers]
    /\ UNCHANGED <<note, preview, modal, sessionVars, lastNotice, savedFile>>

\* onChange of the 'Default time limit' field of the settings tab, with a
\* text that parseInt reads as num (or, unreadable, as NaN, which || 0 turns
\* into 0)
SetDefaultTimeLimit(num) ==
    /\ modal = "none"
    /\ settings' = [settings EXCEPT !.defaultTimeLimit = num]
    /\ UNCHANGED <<note, preview, modal, sessionVars, lastNotice, savedFile>>

\* bound on the minutes an exam is followed for
MaxMinutes == 2

\* a minute passes while the ExamModal is open; the interval callback of the
\* timer rewrites the text of the timer element and nothing else
Tick ==
    /\ modal = "exam"
    /\ elapsed < MaxMinutes
    /\ elapsed' = elapsed + 1
    /\ UNCHANGED <<note, preview, modal, confirmOpen, questions, currentIndex, checked,
                   result, finalizeRuns, resultsMade, thrown, lastNotice, settings,
                   fileQuestions, savedFile>>

\* previewQuestions
PreviewQuestions ==
    /\ modal = "none"
    /\ UNCHANGED <<note, sessionVars, settings, savedFile>>
    /\ IF note.kind = "undefined"
       THEN /\ lastNotice' = "noActiveFile"
            /\ UNCHANGED <<modal, preview>>
       ELSE \E parsed \in {parseQuestions(note.val)} :
            IF Len(parsed) = 0
            THEN /\ lastNotice' = "noQuestionsFound"
                 /\ UNCHANGED <<modal, preview>>
            ELSE /\ preview' = parsed
                 /\ modal' = "preview"
                 /\ UNCHANGED lastNotice

\* the user closes the preview modal
ClosePreview ==
    /\ modal = "preview"
    /\ modal' = "none"
    /\ preview' = <<>>
    /\ UNCHANGED <<note, sessionVars, lastNotice, settings, savedFile>>

----------------------------------------------------------------------------
(* The notes and inputs the model draws from *)

\* single choice: "Q1. T\nA. x\nB. y\nAnswer: B\n"
BlockSingle == <<"Q","1","."," ","T","\n","A","."," ","x","\n","B","."," ","y","\n","A","n","s","w","e","r",":"," ","B","\n">>
\* multiple choice, options out of alphabetical order: "Q2. T\nB. x\nA. y\nC. z\nAnswer: A, C\n"
BlockMultiple == <<"Q","2","."," ","T","\n","B","."," ","x","\n","A","."," ","y","\n","C","."," ","z","\n","A","n","s","w","e","r",":"," ","A",","," ","C","\n">>
\* free text: "Q3. T\nAnswer: H2O\n"
BlockFreetext == <<"Q","3","."," ","T","\n","A","n","s","w","e","r",":"," ","H","2","O","\n">>
\* neither options nor an answer line: "Q4. T\n"
BlockBare == <<"Q","4","."," ","T","\n">>
\* options but no answer line: "Q5. T\nA. x\nB. y\n"
BlockNoAnswer == <<"Q","5","."," ","T","\n","A","."," ","x","\n","B","."," ","y","\n">>
\* a letter twice in the answer line: "Q6. T\nA. x\nB. y\nAnswer: A, A\n"
BlockRepeatedAnswer == <<"Q","6","."," ","T","\n","A","."," ","x","\n","B","."," ","y","\n","A","n","s","w","e","r",":"," ","A",","," ","A","\n">>
\* an option letter twice: "Q7. T\nA. x\nA. y\nB. z\nAnswer: A, B\n"
BlockRepeatedOption == <<"Q","7","."," ","T","\n","A","."," ","x","\n","A","."," ","y","\n","B","."," ","z","\n","A","n","s","w","e","r",":"," ","A",","," ","B","\n">>
\* options and a phrase as answer: "Q8. T\nA. x\nAnswer: x y\n"
BlockPhraseAnswer == <<"Q","8","."," ","T","\n","A","."," ","x","\n","A","n","s","w","e","r",":"," ","x"," ","y","\n">>
\* an answer line with nothing after the colon: "Q9. T\nAnswer:\n"
BlockEmptyAnswer == <<"Q","9","."," ","T","\n","A","n","s","w","e","r",":","\n">>

ExamBlocks == {BlockSingle, BlockMultiple, BlockFreetext, BlockBare, BlockNoAnswer, BlockRepeatedAnswer, BlockRepeatedOption, BlockPhraseAnswer, BlockEmptyAnswer}

\* "Q1. T"
LineQ == <<"Q","1","."," ","T">>
\* "Q12."
LineQBare == <<"Q","1","2",".">>
\* "A. x"
LineOptA == <<"A","."," ","x">>
\* "B. y"
LineOptB == <<"B","."," ","y">>
\* "A.x"
LineNotOpt == <<"A",".","x">>
\* "Answer: A"
LineAnsA == <<"A","n","s","w","e","r",":"," ","A">>
\* "answer: B ,A"
LineAnsBA == <<"a","n","s","w","e","r",":"," ","B"," ",",","A">>
\* "Answer: A,A"
LineAnsAA == <<"A","n","s","w","e","r",":"," ","A",",","A">>
\* "Answer: x y"
LineAnsPhrase == <<"A","n","s","w","e","r",":"," ","x"," ","y">>
\* "ANSWER:"
LineAnsEmpty == <<"A","N","S","W","E","R",":">>
\* "t"
LineText == <<"t">>

ParseLines == {LineQ, LineQBare, LineOptA, LineOptB, LineNotOpt, LineAnsA, LineAnsBA, LineAnsAA, LineAnsPhrase, LineAnsEmpty, LineText}

\* " "
TypedSpace == <<" ">>
\* " h2O"
TypedH2O == <<" ","h","2","O">>
\* "x"
TypedX == <<"x">>

\* what the user may type into the textarea of a freetext question
TypedTexts == {<<>>, TypedSpace, TypedH2O, TypedX}

\* bound on the number of question blocks of a note an exam is taken from
MaxQuestions == 2

\* bound on the number of lines of a note that is previewed
MaxLines == 4

\* all sequences over S of length at most n
SeqsUpTo(S, n) == UNION {[1..k -> S] : k \in 0..n}

\* a note per sequence of at most MaxQuestions blocks, and no active file
ExamNotes ==
    {Str(join(bs, <<>>)) : bs \in SeqsUpTo(ExamBlocks, MaxQuestions)} \cup {Undefined}

\* a note per sequence of at most MaxLines lines
ParseNotes ==
    {Str(join(ls, <<"\n">>)) : ls \in SeqsUpTo(ParseLines, MaxLines)}

Idle ==
    /\ modal = "none"
    /\ preview = <<>>
    /\ lastNotice = "none"
    /\ settings = DEFAULT_SETTINGS
    /\ savedFile = NoFile
    /\ NoSession

Init ==
    /\ note \in ExamNotes
    /\ Idle

Next ==
    \/ StartExam
    \/ \E k \in 1..3 : ChooseOption(k)
    \/ \E text \in TypedTexts : TypeAnswer(text)
    \/ GoToPrevious
    \/ GoToNext
    \/ \E index \in 0..(MaxQuestions - 1) : GoToQuestion(index)
    \/ \E num \in 0..(MaxQuestions + 1) : JumpTo(num)
    \/ SubmitExam
    \/ ConfirmCancel
    \/ ConfirmSubmit
    \/ CloseExam
    \/ CloseResults

Spec == Init /\ [][Next]_vars

InitParse ==
    /\ note \in ParseNotes
    /\ Idle

NextParse ==
    \/ PreviewQuestions
    \/ ClosePreview

SpecParse == InitParse /\ [][NextParse]_vars

\* bound on the number of questions of an exam that is only submitted
MaxTotal == 40

\* the single-choice question of BlockSingle, answered with one letter
answeredSingle(letter) ==
    [parseQuestions(BlockSingle)[1] EXCEPT !.userAnswer = Arr(<<letter>>)]

\* an exam in progress over a note of total single-choice blocks, of which
\* the first correct ones are answered with the right letter and the others
\* with the other letter
InitScore ==
    \E total \in 1..MaxTotal : \E correct \in 0..total :
        /\ note = Str(join([k \in 1..total |-> BlockSingle], <<>>))
        /\ modal = "exam"
        /\ preview = <<>>
        /\ lastNotice = "startingExam"
        /\ settings = DEFAULT_SETTINGS
        /\ confirmOpen = FALSE
        /\ questions = [k \in 1..total |->
                           answeredSingle(IF k <= correct THEN <<"B">> ELSE <<"A">>)]
        /\ currentIndex = 0
        /\ checked = renderChecked(questions[1])
        /\ result = NoResult
        /\ finalizeRuns = 0
        /\ resultsMade = 0
        /\ thrown = FALSE
        /\ fileQuestions = [k \in 1..total |-> parseQuestions(BlockSingle)[1]]
        /\ savedFile = NoFile
        /\ elapsed = 0

NextScore ==
    \/ SubmitExam
    \/ CloseResults

SpecScore == InitScore /\ [][NextScore]_vars

\* the blocks of the notes whose exams end in a saved report
ReportBlocks == {BlockSingle, BlockMultiple, BlockFreetext}

ReportNotes == {Str(join(bs, <<>>)) : bs \in SeqsUpTo(ReportBlocks, MaxQuestions) \ {<<>>}}

InitReport ==
    /\ note \in ReportNotes
    /\ Idle

NextReport ==
    \/ Next
    \/ SaveWrongAnswers

SpecReport == InitReport /\ [][NextReport]_vars

----------------------------------------------------------------------------
(* Claims about the parser, checked under SpecParse on the previewed questions *)

\* a single uppercase letter A-Z
UpperLetter(a) == Len(a) = 1 /\ a[1] \in Range(UpperChars)

AllUpperLetters(answers) == \A k \in 1..Len(answers) : UpperLetter(answers[k])

Previewed == {preview[k] : k \in 1..Len(preview)}

\* C2: every parsed question has type freetext exactly when it has no
\* options, type multiple exactly when it has options and more than one
\* correct answer, each a single uppercase letter, and type single in every
\* other case with options.
C2_TypeRule ==
    \A q \in Previewed :
        /\ q.type \in {"single", "multiple", "freetext"}
        /\ (q.type = "freetext") <=> (Len(q.options) = 0)
        /\ (q.type = "multiple") <=>
               /\ Len(q.options) > 0
               /\ Len(q.correctAnswers) > 1
               /\ AllUpperLetters(q.correctAnswers)
        /\ (q.type = "single") <=>
               /\ Len(q.options) > 0
               /\ ~(Len(q.correctAnswers) > 1 /\ AllUpperLetters(q.correctAnswers))

\* C2 witness: a question with options whose answer is a phrase was parsed,
\* as single
C2_Witness ==
    \E q \in Previewed :
        /\ Len(q.options) > 0
        /\ Len(q.correctAnswers) = 1
        /\ ~UpperLetter(q.correctAnswers[1])
        /\ q.type = "single"

\* C3: every correct answer of a parsed single or multiple question is a
\* single uppercase letter.
C3_ChoiceAnswersAreLetters ==
    \A q \in Previewed :
        q.type \in {"single", "multiple"} => AllUpperLetters(q.correctAnswers)

\* C5: the option letters of a parsed question are pairwise distinct.
C5_OptionLettersDistinct ==
    \A q \in Previewed :
        \A i, j \in 1..Len(q.options) :
            i # j => q.options[i].letter # q.options[j].letter

----------------------------------------------------------------------------
(* Claims about grading and the session, checked under Spec *)

\* the response is absent, an empty selection or the empty string
ResponseEmpty(q) == q.userAnswer.kind = "undefined" \/ q.userAnswer.val = <<>>

\* the letters the user selected, as a set
SelectedSet(q) == Range(asArray(q.userAnswer))

\* the entries of correctAnswers, as a set
CorrectSet(q) == Range(q.correctAnswers)

Asked == {questions[k] : k \in 1..Len(questions)}

\* a step in which finalizeSubmission runs
Grading == finalizeRuns' = finalizeRuns + 1

\* C1: a single or multiple question with a response that is not skipped
\* is graded correct exactly when the set of selected letters equals the set
\* of correct letters, and wrong otherwise, by finalizeSubmission,
\* getQuestionStatus and the wrong-answer filter alike.
C1_ExactSetMatch ==
    modal = "results" =>
        \A q \in Asked :
            (q.type \in {"single", "multiple"} /\ ~ResponseEmpty(q)) =>
                LET same == SelectedSet(q) = CorrectSet(q) IN
                /\ finalizeOne(q) = (IF same THEN "correct" ELSE "wrong")
                /\ getQuestionStatus(q) = (IF same THEN "correct" ELSE "wrong")
                /\ wrongFilter(q) = (IF same THEN "drop" ELSE "keep")

\* C4: a question without an answer line has no correct answers, and whatever
\* the response, grading raises no error and counts the question wrong or
\* skipped.
C4_NoAnswerLineNeverFails ==
    [][Grading =>
          /\ ~thrown'
          /\ \A q \in Asked :
                Len(q.correctAnswers) = 0 => finalizeOne(q) \in {"wrong", "skipped"}]_vars

\* C6: grading counts a question skipped exactly when its response is absent,
\* an empty selection or the empty string; any other response is counted
\* correct or wrong.
C6_SkippedExactlyWhenEmpty ==
    [][Grading =>
          \A q \in Asked :
              /\ (finalizeOne(q) = "skipped") <=> ResponseEmpty(q)
              /\ ~ResponseEmpty(q) => finalizeOne(q) \in {"correct", "wrong"}]_vars

\* the response equals correctAnswers[0] once both are lower-cased and trimmed
FoldedEqual(q) ==
    /\ Len(q.correctAnswers) >= 1
    /\ q.userAnswer.kind = "string"
    /\ trim(toLowerCase(q.userAnswer.val)) = trim(toLowerCase(q.correctAnswers[1]))

\* C7: grading counts a freetext question with a response that is not skipped
\* correct exactly when response and correctAnswers[0] are equal after
\* lower-casing and trimming both, and wrong otherwise.
C7_FreetextFoldedCompare ==
    [][Grading =>
          \A q \in Asked :
              (q.type = "freetext" /\ ~ResponseEmpty(q)) =>
                  finalizeOne(q) = (IF FoldedEqual(q) THEN "correct" ELSE "wrong")]_vars

\* C9: in a session finalizeSubmission runs at most once and at most one
\* ExamResult is created, and once it has run no question (and so no
\* response) of the session changes.
C9_FinalizedOnce ==
    /\ [](finalizeRuns <= 1 /\ resultsMade <= 1)
    /\ [][(finalizeRuns >= 1 /\ finalizeRuns' >= 1) => questions' = questions]_vars

\* C10: Submit with an unanswered question opens the confirmation dialog and
\* produces no result; a result appears only on confirming, or on a Submit
\* with nothing unanswered, which finalizes at once without a dialog;
\* cancelling leaves the session open with responses and index unchanged.
C10_ConfirmBeforeResult ==
    [][/\ (SubmitExam /\ unanswered(questions) > 0) =>
              (confirmOpen' /\ result' = NoResult /\ modal' = "exam")
       /\ (SubmitExam /\ unanswered(questions) = 0) =>
              (~confirmOpen' /\ result' # NoResult /\ modal' = "results")
       /\ ConfirmCancel =>
              /\ modal' = "exam"
              /\ result' = NoResult
              /\ questions' = questions
              /\ currentIndex' = currentIndex
       /\ (result = NoResult /\ result' # NoResult) =>
              (ConfirmSubmit \/ (SubmitExam /\ unanswered(questions) = 0))]_vars

\* the integer nearest to num / den, halves upwards
Rounded(num, den) == (2 * num + den) \div (2 * den)

\* C8: an exam is only ever open on at least one question, and the percentage
\* of every ExamResult is an integer in 0..100, equal to 100 * correct / total
\* rounded to the nearest integer.
C8_PercentageIsRoundedRatio ==
    /\ modal = "exam" => Len(questions) > 0
    /\ result.kind = "result" =>
          /\ result.totalQuestions > 0
          /\ result.percentage \in 0..100
          /\ result.percentage = Rounded(100 * result.correctAnswers, result.totalQuestions)

----------------------------------------------------------------------------
(* Claims about the saved report, checked under SpecReport *)

\* the entry the report is to hold for question q
ClaimedEntry(q) ==
    <<(<<"Q">> \o q.id \o <<".", " ">> \o q.text)>>
    \o [k \in 1..Len(q.options) |->
            q.options[k].letter \o <<".", " ">> \o q.options[k].text]
    \o <<AnswerLabel \o join(q.correctAnswers, <<",", " ">>)>>
    \o <<YourAnswerLabel \o (IF ResponseEmpty(q) THEN SkippedMark
                              ELSE join(asArray(q.userAnswer), <<",", " ">>))>>
    \o <<(<<>>)>>

RECURSIVE ClaimedLines(_)
ClaimedLines(qs) ==
    IF qs = <<>> THEN <<>>
    ELSE IF finalizeOne(qs[1]) \in {"wrong", "skipped"}
         THEN ClaimedEntry(qs[1]) \o ClaimedLines(Tail(qs))
         ELSE ClaimedLines(Tail(qs))

\* C11: a report that is written holds, for every wrong or skipped question
\* and in order, its Q line, one line per option, the Answer: line, a
\* Your answer: line with the comma-joined response or (skipped), and an
\* empty line.
C11_ReportEntries ==
    [][(SaveWrongAnswers /\ lastNotice' = "saved") =>
          savedFile'.lines = ClaimedLines(questions)]_vars

----------------------------------------------------------------------------
(* Notes of one block, for the text and option phases of parseQuestionBlock *)

\* the first line of a block: "Q1. T"
TextQ == <<"Q","1","."," ","T">>
\* a first line with an embedded image reference: "Q1. T ![[a]]"
TextQImage == <<"Q","1","."," ","T"," ","!","[","[","a","]","]">>
\* an image line in bracket-link syntax: "![[b]]"
TextImageLink == <<"!","[","[","b","]","]">>
\* an image line in Markdown syntax: "![c](d)"
TextImageMd == <<"!","[","c","]","(","d",")">>
\* text followed by an image reference: "u ![[e]]"
TextWithImage == <<"u"," ","!","[","[","e","]","]">>
\* a line holding the meta phrase: "With Image Support"
TextMeta == <<"W","i","t","h"," ","I","m","a","g","e"," ","S","u","p","p","o","r","t">>
\* an option whose text is an image reference: "A. ![[f]]"
TextOptImage == <<"A","."," ","!","[","[","f","]","]">>

TextFirstLines == {TextQ, TextQImage}

TextLines == {TextImageLink, TextImageMd, TextWithImage, TextMeta, TextOptImage,
              LineText, LineOptA, LineOptB, LineAnsA}

\* a note per first line followed by at most MaxLines - 1 further lines
TextNotes ==
    {Str(join(<<first>> \o ls, <<"\n">>)) :
        first \in TextFirstLines, ls \in SeqsUpTo(TextLines, MaxLines - 1)}

InitText ==
    /\ note \in TextNotes
    /\ Idle

NextText ==
    \/ PreviewQuestions
    \/ ClosePreview

SpecText == InitText /\ [][NextText]_vars

----------------------------------------------------------------------------
(* Claims about the text and option phases, checked under SpecText, whose   *)
(* notes are one block: the previewed question is preview[1]                *)

\* the lines of the note
NoteLines == splitChar(note.val, "\n")

\* the line is an image reference and nothing else
PurelyImage(line) ==
    LET m == imagePattern(line) IN m.found /\ m.start = 1 /\ m.end = Len(line)

HasImage(line) == imagePattern(line).found

HasMeta(line) == includes(toLowerCase(line), MetaPhrase)

\* the least element of a non-empty set of numbers
Least(S) == CHOOSE x \in S : \A y \in S : x <= y

\* index of the first line after the first that is an option line or an
\* Answer: line; one past the last line if there is none
TextEnd ==
    Least({i \in 2..Len(NoteLines) :
              isOptionLine(NoteLines[i]) \/ isAnswerLine(NoteLines[i])}
          \cup {Len(NoteLines) + 1})

\* index of the first Answer: line; one past the last line if there is none
FirstAnswer ==
    Least({i \in 2..Len(NoteLines) : isAnswerLine(NoteLines[i])}
          \cup {Len(NoteLines) + 1})

\* the subsequence of s at the indices in I, in order
RECURSIVE Pick(_, _)
Pick(s, I) ==
    IF I = {} THEN <<>>
    ELSE <<s[Least(I)]>> \o Pick(s, I \ {Least(I)})

\* the note made of the lines at the indices in I
NoteOf(I) == join(Pick(NoteLines, I), <<"\n">>)

\* the lines of the block, up to the options, that hold an image reference
ImageRefs == {i \in 1..(TextEnd - 1) : HasImage(NoteLines[i])}

\* C12: when the block holds more than one image reference, in its first line
\* or on later lines before the options, imageUrl is the target of the first.
C12_FirstImageWins ==
    (modal = "preview" /\ Cardinality(ImageRefs) > 1) =>
        preview[1].imageUrl = Str(imagePattern(NoteLines[Least(ImageRefs)]).url)

\* the lines of the text phase that are to be appended to the question text
KeptLines ==
    {i \in 2..(TextEnd - 1) : ~PurelyImage(NoteLines[i]) /\ ~HasMeta(NoteLines[i])}

\* C13: the text of a question whose first line holds no image reference is
\* the text of the first line and every line before the first option or
\* Answer: line that is neither purely an image reference nor holds the meta
\* phrase, in source order, joined with single spaces.
C13_TextLinesKept ==
    (modal = "preview" /\ ~HasImage(NoteLines[1])) =>
        preview[1].text =
            trim(join(<<trim(From(NoteLines[1], SkipDigits(NoteLines[1], 2) + 1))>>
                      \o Pick(NoteLines, KeptLines), <<" ">>))

\* the lines before the first Answer: line that have the shape of an option
OptionLines == {i \in 2..(FirstAnswer - 1) : isOptionLine(NoteLines[i])}

\* C14: the question text is that of the block cut before its first option or
\* Answer: line, and the options are the option-shaped lines before the first
\* Answer: line, each as {letter, text}, in order.
C14_OptionPhase ==
    modal = "preview" =>
        /\ preview[1].text = parseQuestions(NoteOf(1..(TextEnd - 1)))[1].text
        /\ preview[1].options =
              [k \in 1..Cardinality(OptionLines) |->
                  [letter |-> <<Pick(NoteLines, OptionLines)[k][1]>>,
                   text |-> trim(From(Pick(NoteLines, OptionLines)[k], 3))]]

\* the block holds one image reference, and it is a line of its own between
\* the first line and the first option or Answer: line
OneImageLine ==
    /\ Cardinality({i \in 1..Len(NoteLines) : HasImage(NoteLines[i])}) = 1
    /\ \E i \in 2..(TextEnd - 1) : PurelyImage(NoteLines[i])

\* the target of an image line: ![[target]] or ![alt](target)
TargetOf(line) ==
    IF line[3] = "[" THEN SubSeq(line, 4, Len(line) - 2)
    ELSE SubSeq(line, FindChar(line, 1, "(") + 1, Len(line) - 1)

\* C18: a block whose one image reference is a line of its own between the
\* question text and the options has that line's target as imageUrl, and its
\* text, options, answers and type are those of the block without the line.
C18_ImageLine ==
    (modal = "preview" /\ OneImageLine) =>
        LET i == CHOOSE k \in 2..(TextEnd - 1) : PurelyImage(NoteLines[k])
            without == parseQuestions(NoteOf((1..Len(NoteLines)) \ {i}))[1]
        IN  /\ preview[1].imageUrl = Str(TargetOf(NoteLines[i]))
            /\ without.imageUrl = Undefined
            /\ preview[1].text = without.text
            /\ preview[1].options = without.options
            /\ preview[1].correctAnswers = without.correctAnswers
            /\ preview[1].type = without.type

\* C18 witness: a block with a Markdown image line before its options and
\* answer is previewed
C18_Witness ==
    /\ modal = "preview"
    /\ OneImageLine
    /\ \E i \in 2..(TextEnd - 1) : NoteLines[i] = TextImageMd
    /\ Len(preview[1].options) > 0
    /\ Len(preview[1].correctAnswers) > 0

----------------------------------------------------------------------------
(* Notes of one block that ends in an Answer: line *)

\* a lowercase letter: "Answer: a"
AnsLower == <<"A","n","s","w","e","r",":"," ","a">>
\* three letters without spaces: "Answer:A,B,C"
AnsThree == <<"A","n","s","w","e","r",":","A",",","B",",","C">>
\* a letter and a trailing comma: "Answer: A,"
AnsTrailingComma == <<"A","n","s","w","e","r",":"," ","A",",">>
\* two letters without a comma: "Answer: A B"
AnsTwoWords == <<"A","n","s","w","e","r",":"," ","A"," ","B">>
\* a letter after several spaces: "aNSWER:   C"
AnsSpaced == <<"a","N","S","W","E","R",":"," "," "," ","C">>

AnswerLines == {LineAnsA, LineAnsBA, LineAnsAA, LineAnsPhrase, LineAnsEmpty,
                AnsLower, AnsThree, AnsTrailingComma, AnsTwoWords, AnsSpaced}

\* a note per question line, at most MaxLines - 2 option lines and an answer line
AnswerNotes ==
    {Str(join(<<LineQ>> \o os \o <<a>>, <<"\n">>)) :
        os \in SeqsUpTo({LineOptA, LineOptB}, MaxLines - 2), a \in AnswerLines}

InitAnswer ==
    /\ note \in AnswerNotes
    /\ Idle

NextAnswer ==
    \/ PreviewQuestions
    \/ ClosePreview

SpecAnswer == InitAnswer /\ [][NextAnswer]_vars

\* the text after the 7 characters of Answer: in the last line, trimmed
Remainder == trim(From(NoteLines[Len(NoteLines)], Len(AnswerPrefix) + 1))

\* s without its whitespace
RECURSIVE Unspaced(_)
Unspaced(s) ==
    IF s = <<>> THEN <<>>
    ELSE IF IsSpace(s[1]) THEN Unspaced(Tail(s))
    ELSE <<s[1]>> \o Unspaced(Tail(s))

\* s is letter , letter , ... , letter with uppercase letters
CommaLetters(s) ==
    /\ Len(s) % 2 = 1
    /\ \A k \in 1..Len(s) :
          IF k % 2 = 1 THEN s[k] \in Range(UpperChars) ELSE s[k] = ","

----------------------------------------------------------------------------
(* Claims about parseQuestions as a whole, checked under SpecParse *)

\* the positions of content at which a question marker Q<digits>. starts
Markers(content) == {p \in 1..Len(content) : MarkerAt(content, p)}

\* content from its first question marker on
AfterPreamble(content) == From(content, Least(Markers(content)))

\* C16: parsing a note never ends in an error; a note that is empty or holds
\* no question marker yields no question; and what precedes the first marker
\* is discarded: the questions are those of the note from its first marker on.
C16_ParseTotal ==
    /\ ~thrown
    /\ Markers(note.val) = {} => modal # "preview"
    /\ lastNotice = "noQuestionsFound" =>
          (Markers(note.val) = {} \/ parseQuestions(AfterPreamble(note.val)) = <<>>)
    /\ modal = "preview" => preview = parseQuestions(AfterPreamble(note.val))

\* C16 witness: a note with text before its first marker was previewed
C16_Witness ==
    /\ modal = "preview"
    /\ Least(Markers(note.val)) > 1

----------------------------------------------------------------------------
(* Notes of the documented single-choice shape *)

IdOne == <<"1">>
IdPadded == <<"0","0","1">>
IdTwoDigits == <<"4","2">>
IdSeven == <<"7">>
IdYear == <<"2","0","2","4">>

ShapeIds == {IdOne, IdPadded, IdTwoDigits, IdSeven, IdYear}

\* " T"
ShapeTextT == <<" ","T">>
\* "T"
ShapeTextTight == <<"T">>
\* ""
ShapeTextNone == <<>>
\* " t u"
ShapeTextWords == <<" ","t"," ","u">>
\* " T ![[a]]"
ShapeTextImage == <<" ","T"," ","!","[","[","a","]","]">>
\* " With Image Support"
ShapeTextMeta == <<" ","W","i","t","h"," ","I","m","a","g","e"," ","S","u","p","p","o","r","t">>
\* " A. x"
ShapeTextOption == <<" ","A","."," ","x">>
\* " Answer: B"
ShapeTextAnswer == <<" ","A","n","s","w","e","r",":"," ","B">>

ShapeTexts == {ShapeTextT,
               ShapeTextTight,
               ShapeTextNone,
               ShapeTextWords,
               ShapeTextImage,
               ShapeTextMeta,
               ShapeTextOption,
               ShapeTextAnswer}

\* the line break between the parts of a block: one, or one with an empty line
ShapeGaps == {<<"\n">>, <<"\n", "\n">>}

\* Q<n>.<text> / A. x / B. y / Answer: A, with or without a final line break
Shape(n, text, gap, end) ==
    <<"Q">> \o n \o <<".">> \o text \o gap \o LineOptA \o <<"\n">> \o LineOptB
    \o gap \o LineAnsA \o end

ShapeNotes ==
    {Str(Shape(n, text, gap, end)) :
        n \in ShapeIds, text \in ShapeTexts, gap \in ShapeGaps, end \in {<<>>, <<"\n">>}}

InitShape ==
    /\ note \in ShapeNotes
    /\ Idle

NextShape ==
    \/ PreviewQuestions
    \/ ClosePreview

SpecShape == InitShape /\ [][NextShape]_vars

\* C17: a note Q<n>.<text> / A. x / B. y / Answer: A, whose text holds no
\* line break and no question marker, parses to exactly one question, with
\* id n, type single, options {A, x}, {B, y} in that order and
\* correctAnswers [A].
C17_SingleChoiceShape ==
    /\ lastNotice # "noQuestionsFound"
    /\ modal = "preview" =>
          \A n \in ShapeIds, text \in ShapeTexts, gap \in ShapeGaps, end \in {<<>>, <<"\n">>} :
              note = Str(Shape(n, text, gap, end)) =>
                  /\ Len(preview) = 1
                  /\ preview[1].id = n
                  /\ preview[1].type = "single"
                  /\ preview[1].options = <<[letter |-> <<"A">>, text |-> <<"x">>],
                                            [letter |-> <<"B">>, text |-> <<"y">>]>>
                  /\ preview[1].correctAnswers = << <<"A">> >>

\* C17 witness: the note Q001. T with empty lines between its parts was
\* previewed
C17_Witness ==
    /\ modal = "preview"
    /\ note = Str(Shape(IdPadded, ShapeTextT, <<"\n", "\n">>, <<"\n">>))
    /\ preview[1].id = IdPadded

----------------------------------------------------------------------------
(* Exams started with the shuffle settings on or off *)

ShuffleNotes == {Str(join(bs, <<>>)) : bs \in SeqsUpTo(ReportBlocks, MaxQuestions) \ {<<>>}}

InitShuffle ==
    /\ note \in ShuffleNotes
    /\ Idle

NextShuffle ==
    \/ ToggleShuffleQuestions
    \/ ToggleShuffleAnswers
    \/ StartExam
    \/ CloseExam

SpecShuffle == InitShuffle /\ [][NextShuffle]_vars

\* the bijections of 1..n
Bijections(n) == {f \in [1..n -> 1..n] : \A a, b \in 1..n : f[a] = f[b] => a = b}

\* b holds the elements of a, each as often as a does
PermutationOf(b, a) ==
    /\ Len(b) = Len(a)
    /\ \E f \in Bijections(Len(a)) : \A k \in 1..Len(a) : b[k] = a[f[k]]

\* question q is question p but for the order of its options
ReorderedOptions(q, p) ==
    /\ PermutationOf(q.options, p.options)
    /\ [q EXCEPT !.options = p.options] = p

\* C19: the questions of a started exam are those parsed from the note, each
\* as often, and the options of each are the parsed options, each as often;
\* with both settings off the order is the parsed one; and the parsed
\* sequence and the options of its questions are left in their order.
C19_ShuffleIsPermutation ==
    modal = "exam" =>
        LET orig == parseQuestions(note.val) IN
        /\ fileQuestions = orig
        /\ Len(questions) = Len(orig)
        /\ \E f \in Bijections(Len(orig)) :
              \A k \in 1..Len(orig) : ReorderedOptions(questions[k], orig[f[k]])
        /\ ~settings.shuffleQuestions =>
              \A k \in 1..Len(orig) : ReorderedOptions(questions[k], orig[k])
        /\ ~settings.shuffleAnswers =>
              \A k \in 1..Len(orig) : \E m \in 1..Len(orig) : questions[k] = orig[m]

\* C19 witness: an exam was started with both settings on, and its questions
\* and the options of one of them are in another order than parsed
C19_Witness ==
    /\ modal = "exam"
    /\ settings.shuffleQuestions
    /\ settings.shuffleAnswers
    /\ Len(questions) > 1
    /\ questions[1].id # fileQuestions[1].id
    /\ \E k, m \in 1..Len(questions) :
          /\ questions[k].id = fileQuestions[m].id
          /\ questions[k].options # fileQuestions[m].options

\* no element occurs twice in a
Distinct(a) == \A i, j \in 1..Len(a) : a[i] = a[j] => i = j

\* the orders of the elements of a
Orders(a) == {[k \in 1..Len(a) |-> a[f[k]]] : f \in Bijections(Len(a))}

\* every order of a comes from exactly one sequence of draws
OneDrawPerOrder(a) ==
    \A b \in Orders(a) :
        Cardinality({rnd \in RandomDraws(Len(a)) : shuffleArray(a, rnd) = b}) = 1

\* C20: for the parsed questions of a started exam, and for the options of
\* each, when their elements are distinct: every order of the elements is
\* produced by exactly one sequence of draws j in 0..i for i = n-1 down to 1.
C20_OneDrawPerPermutation ==
    modal = "exam" =>
        /\ Distinct(fileQuestions) => OneDrawPerOrder(fileQuestions)
        /\ \A k \in 1..Len(fileQuestions) :
              Distinct(fileQuestions[k].options) =>
                  OneDrawPerOrder(fileQuestions[k].options)

\* C20 witness: an exam was started whose question of three options shows
\* them in the reverse of the parsed order
C20_Witness ==
    /\ modal = "exam"
    /\ \E k, m \in 1..Len(questions) :
          /\ Len(questions[k].options) = 3
          /\ questions[k].id = fileQuestions[m].id
          /\ \A o \in 1..3 : questions[k].options[o] = fileQuestions[m].options[4 - o]

----------------------------------------------------------------------------
(* Exams taken with and without shuffled questions *)

\* the blocks of the notes: a choice question, a freetext question and one
\* whose grading throws
OrderBlocks == {BlockSingle, BlockFreetext, BlockBare}

OrderNotes == {Str(join(bs, <<>>)) : bs \in SeqsUpTo(OrderBlocks, MaxQuestions) \ {<<>>}}

InitOrder ==
    /\ note \in OrderNotes
    /\ Idle

NextOrder ==
    \/ Next
    \/ ToggleShuffleQuestions

SpecOrder == InitOrder /\ [][NextOrder]_vars

\* the sequence qs taken in the order p
Reordered(qs, p) == [k \in 1..Len(qs) |-> qs[p[k]]]

\* the ids of qs, in order
IdsOf(qs) == [k \in 1..Len(qs) |-> qs[k].id]

\* C21: the counts and the percentage of the result of a submission are those
\* of every permutation of the session's questions with their responses, so
\* also of the same responses in the question order of the file when the
\* questions were shuffled.
C21_ScoreOrderInvariant ==
    modal = "results" =>
        \A p \in Bijections(Len(questions)) :
            ExamResult(Reordered(questions, p)) = result

\* C21 witness: a result of an exam whose questions were shuffled out of the
\* order of the file, with a correct question before a wrong or skipped one
C21_Witness ==
    /\ modal = "results"
    /\ settings.shuffleQuestions
    /\ IdsOf(questions) # IdsOf(fileQuestions)
    /\ result.correctAnswers > 0
    /\ result.wrongAnswers + result.skipped > 0
    /\ finalizeOne(questions[1]) = "correct"

----------------------------------------------------------------------------
(* Claims about the results screen, checked under SpecScore *)

\* C22: the results screen shows PASSED exactly when correct / total is at
\* least 0.70, and FAILED otherwise.
C22_PassAtSeventyPercent ==
    result.kind = "result" =>
        /\ scoreLabel(result.percentage) \in {"PASSED", "FAILED"}
        /\ (scoreLabel(result.percentage) = "PASSED")
               <=> (10 * result.correctAnswers >= 7 * result.totalQuestions)

----------------------------------------------------------------------------
(* Exams taken while time passes, with a default time limit set *)

\* the blocks of the notes: a choice question and a freetext question
TimeBlocks == {BlockSingle, BlockFreetext}

TimeNotes == {Str(join(bs, <<>>)) : bs \in SeqsUpTo(TimeBlocks, MaxQuestions) \ {<<>>}}

InitTime ==
    /\ note \in TimeNotes
    /\ Idle

NextTime ==
    \/ Next
    \/ \E num \in 0..MaxMinutes : SetDefaultTimeLimit(num)
    \/ Tick

SpecTime == InitTime /\ [][NextTime]_vars

\* a step in which the session takes a response from the user
AcceptsAnswer ==
    \/ \E k \in 1..3 : ChooseOption(k)
    \/ \E text \in TypedTexts : TypeAnswer(text)

\* the limit of the settings has run out for the open session
TimeUp == settings.defaultTimeLimit > 0 /\ elapsed >= settings.defaultTimeLimit

\* C23: once defaultTimeLimit = N > 0 minutes have elapsed the session accepts
\* no further answer (it is ended or submitted), and with defaultTimeLimit = 0
\* the passing of time never ends the session.
C23_TimeLimitEnforced ==
    [][/\ TimeUp => ~AcceptsAnswer
       /\ (settings.defaultTimeLimit = 0 /\ Tick) => modal' = "exam"]_vars

----------------------------------------------------------------------------
(* Notes of one block whose first line may hold image references *)

\* a reference inside the text: "Q1. ![[a]] T"
EmbedMid == <<"Q","1","."," ","!","[","[","a","]","]"," ","T">>
\* a Markdown reference followed by text: "Q1. T ![c](d) u"
EmbedMd == <<"Q","1","."," ","T"," ","!","[","c","]","(","d",")"," ","u">>
\* the same reference twice: "Q1. ![[a]] ![[a]]"
EmbedTwice == <<"Q","1","."," ","!","[","[","a","]","]"," ","!","[","[","a","]","]">>
\* two references: "Q1. ![[a]] ![[b]]"
EmbedTwo == <<"Q","1","."," ","!","[","[","a","]","]"," ","!","[","[","b","]","]">>

EmbedFirstLines == {TextQ, TextQImage, EmbedMid, EmbedMd, EmbedTwice, EmbedTwo}

EmbedLines == {TextImageLink, TextMeta, LineText, LineOptA, LineAnsA}

\* a note per first line followed by at most MaxLines - 1 further lines
EmbedNotes ==
    {Str(join(<<first>> \o ls, <<"\n">>)) :
        first \in EmbedFirstLines, ls \in SeqsUpTo(EmbedLines, MaxLines - 1)}

InitEmbed ==
    /\ note \in EmbedNotes
    /\ Idle

NextEmbed ==
    \/ PreviewQuestions
    \/ ClosePreview

SpecEmbed == InitEmbed /\ [][NextEmbed]_vars

\* the lines after the first, before the options, from which an image is taken
CapturedLines == {i \in 2..(TextEnd - 1) : HasImage(NoteLines[i])}

\* the greatest element of a non-empty set of numbers
Greatest(S) == CHOOSE x \in S : \A y \in S : y <= x

\* the question text as joined from the first line and the lines before the
\* options that hold neither an image reference nor the meta phrase
JoinedText ==
    trim(join(<<trim(From(NoteLines[1], SkipDigits(NoteLines[1], 2) + 1))>>
              \o Pick(NoteLines, {i \in 2..(TextEnd - 1) :
                                     ~HasImage(NoteLines[i]) /\ ~HasMeta(NoteLines[i])}),
              <<" ">>))

\* the leftmost image reference of the joined text
Embedded == imagePattern(JoinedText)

\* the previewed question has the embedded reference taken out of its text
\* and made its image, or, with an image captured from a later line, has the
\* joined text and that image
EmbedHandled ==
    IF Embedded.found /\ CapturedLines = {}
    THEN /\ preview[1].imageUrl = Str(Embedded.url)
         /\ preview[1].text = trim(SubSeq(JoinedText, 1, Embedded.start - 1)
                                   \o From(JoinedText, Embedded.end + 1))
    ELSE /\ preview[1].text = JoinedText
         /\ preview[1].imageUrl =
               (IF CapturedLines = {} THEN Undefined
                ELSE Str(imagePattern(NoteLines[Greatest(CapturedLines)]).url))

\* C24 as stated: an embedded reference of the joined text, with no image
\* captured from a later line, becomes imageUrl and is removed from the text
\* (then trimmed), so that the text no longer contains that reference; with an
\* image captured, text and imageUrl stay as they are.
C24_EmbeddedImage ==
    modal = "preview" =>
        /\ EmbedHandled
        /\ (Embedded.found /\ CapturedLines = {}) =>
              ~includes(preview[1].text, SubSeq(JoinedText, Embedded.start, Embedded.end))

\* C24 amended: the leftmost embedded reference of the joined text, with no
\* image captured from a later line, becomes imageUrl and that one occurrence
\* is removed from the text (then trimmed); with an image captured, text and
\* imageUrl stay as they are.
C24_LeftmostEmbeddedImage ==
    modal = "preview" => EmbedHandled

\* C24 witness: a question whose first line holds a reference inside its text,
\* and no image line, is previewed with text on both sides of the reference
C24_Witness ==
    /\ modal = "preview"
    /\ Embedded.found
    /\ CapturedLines = {}
    /\ Embedded.start > 1
    /\ Embedded.end < Len(JoinedText)
    /\ preview[1].imageUrl = Str(Embedded.url)
    /\ Len(preview[1].options) > 0

----------------------------------------------------------------------------
(* Notes of one block with lines after an Answer: line *)

\* the separator of the README: "---"
AfterSeparator == <<"-","-","-">>
\* the line the wrong-answer report adds: "Your answer: B"
AfterYourAnswer == <<"Y","o","u","r"," ","a","n","s","w","e","r",":"," ","B">>
\* an answer that is an image reference: "Answer: ![[x]]"
AfterAnsImage == <<"A","n","s","w","e","r",":"," ","!","[","[","x","]","]">>
\* a second answer line: "Answer: B"
AfterAnsB == <<"A","n","s","w","e","r",":"," ","B">>

AfterLines == {LineOptA, LineOptB, LineAnsA, AfterAnsB, AfterAnsImage,
               AfterSeparator, AfterYourAnswer, LineText, TextImageLink}

\* a note per first line "Q1. T" followed by at most MaxLines - 1 further lines
AfterNotes ==
    {Str(join(<<TextQ>> \o ls, <<"\n">>)) : ls \in SeqsUpTo(AfterLines, MaxLines - 1)}

InitAfter ==
    /\ note \in AfterNotes
    /\ Idle

SpecAfter == InitAfter /\ [][NextParse]_vars

\* the fields a parse gives a question
ParsedFields(q) ==
    [id |-> q.id, text |-> q.text, imageUrl |-> q.imageUrl, options |-> q.options,
     correctAnswers |-> q.correctAnswers, type |-> q.type]

\* C25: the lines of a block after its first Answer: line have no effect on
\* the parsed question: the block cut after that line parses to the same id,
\* text, imageUrl, options, correctAnswers and type.
C25_AfterAnswerIgnored ==
    (modal = "preview" /\ FirstAnswer <= Len(NoteLines)) =>
        ParsedFields(preview[1])
            = ParsedFields(parseQuestions(NoteOf(1..FirstAnswer))[1])

----------------------------------------------------------------------------
(* Notes with question markers at the start and in the middle of lines *)

\* a marker inside an option line: "A. x Q7. y"
MarkerInOption == <<"A","."," ","x"," ","Q","7","."," ","y">>
\* two markers without anything between them: "Q1.Q02."
MarkerTwice == <<"Q","1",".","Q","0","2",".">>
\* a marker right after text: "tQ3.u"
MarkerInWord == <<"t","Q","3",".","u">>
\* no dot after the digits: "Q4 T"
MarkerNoDot == <<"Q","4"," ","T">>
\* no digits before the dot: "Q. T"
MarkerNoDigits == <<"Q","."," ","T">>

MarkerLines == {LineQ, MarkerInOption, MarkerTwice, MarkerInWord,
                MarkerNoDot, MarkerNoDigits, LineAnsA}

\* a note per sequence of at most MaxLines lines
MarkerNotes == {Str(join(ls, <<"\n">>)) : ls \in SeqsUpTo(MarkerLines, MaxLines)}

InitMarker ==
    /\ note \in MarkerNotes
    /\ Idle

SpecMarker == InitMarker /\ [][NextParse]_vars

\* the positions of the note at which the letter Q, one or more digits and a
\* dot follow each other
MarkerStarts ==
    {p \in 1..Len(note.val) :
        /\ note.val[p] = "Q"
        /\ \E e \in (p + 2)..Len(note.val) :
              /\ note.val[e] = "."
              /\ \A j \in (p + 1)..(e - 1) : IsDigit(note.val[j])}

\* the digits of the marker at position p of the note
DigitsAt(p) == SubSeq(note.val, p + 1, FindChar(note.val, p, ".") - 1)

\* C26: parseQuestions returns one question per occurrence of a marker
\* Q<digits>. in the note, at the start or in the middle of a line, in source
\* order and with the digits of the occurrence as id; no block that starts
\* with a marker is dropped, and a note without a marker yields no question.
C26_OneQuestionPerMarker ==
    /\ modal = "preview" =>
          /\ Len(preview) = Cardinality(MarkerStarts)
          /\ \A k \in 1..Len(preview) :
                preview[k].id = Pick([p \in 1..Len(note.val) |-> DigitsAt(p)], MarkerStarts)[k]
    /\ lastNotice = "noQuestionsFound" => MarkerStarts = {}

\* C26 witness: a note whose markers stand in the middle of lines is
\* previewed, with more questions than the note has lines
C26_Witness ==
    /\ modal = "preview"
    /\ \E p \in MarkerStarts : p > 1 /\ note.val[p - 1] # "\n"
    /\ Len(preview) > Len(NoteLines)

----------------------------------------------------------------------------
(* Exams that are submitted with any responses the card can produce *)

\* the values renderQuestion's inputs can leave in q.userAnswer: nothing yet,
\* the text of the textarea, the checked boxes in document order, or the
\* selected radio button
Responses(q) ==
    {Undefined} \cup
    (IF q.type = "freetext" THEN {Str(text) : text \in TypedTexts}
     ELSE IF q.type = "multiple"
     THEN {Arr(checkedValues(q.options, boxes)) : boxes \in SUBSET (1..Len(q.options))}
     ELSE {Arr(<<q.options[k].letter>>) : k \in 1..Len(q.options)})

\* the questions qs, each with one of its responses
RECURSIVE Answered(_)
Answered(qs) ==
    IF qs = <<>> THEN {<<>>}
    ELSE {<<[qs[1] EXCEPT !.userAnswer = r]>> \o rest :
             r \in Responses(qs[1]), rest \in Answered(Tail(qs))}

GradeBlocks == {BlockSingle, BlockMultiple, BlockFreetext, BlockBare, BlockRepeatedAnswer}

GradeNotes == {Str(join(bs, <<>>)) : bs \in SeqsUpTo(GradeBlocks, MaxQuestions) \ {<<>>}}

\* an exam in progress on the first question, with responses given
InitGrade ==
    /\ note \in GradeNotes
    /\ fileQuestions = parseQuestions(note.val)
    /\ questions \in Answered(fileQuestions)
    /\ modal = "exam"
    /\ preview = <<>>
    /\ lastNotice = "startingExam"
    /\ settings = DEFAULT_SETTINGS
    /\ confirmOpen = FALSE
    /\ currentIndex = 0
    /\ checked = renderChecked(questions[1])
    /\ result = NoResult
    /\ finalizeRuns = 0
    /\ resultsMade = 0
    /\ thrown = FALSE
    /\ savedFile = NoFile
    /\ elapsed = 0

NextGrade ==
    \/ SubmitExam
    \/ ConfirmCancel
    \/ ConfirmSubmit
    \/ SaveWrongAnswers
    \/ CloseResults

SpecGrade == InitGrade /\ [][NextGrade]_vars

\* what the wrong-answer filter does with a question of the given status
FilterOf(status) ==
    IF status = "correct" THEN "drop"
    ELSE IF status = "TypeError" THEN "TypeError"
    ELSE "keep"

\* the number of empty lines of a report: every entry ends in one
EntriesOf(lines) == Cardinality({k \in 1..Len(lines) : lines[k] = <<>>})

\* C27: finalizeSubmission, getQuestionStatus and the wrong-answer filter
\* classify every question with every response alike; the counts of the
\* review are those of the ExamResult, and a saved report holds as many
\* questions as the result counts wrong and skipped together.
C27_GradersAgree ==
    /\ \A q \in Asked :
          /\ getQuestionStatus(q) = finalizeOne(q)
          /\ wrongFilter(q) = FilterOf(finalizeOne(q))
    /\ modal = "results" =>
          /\ getCounts(questions) = [correct |-> result.correctAnswers,
                                     wrong |-> result.wrongAnswers,
                                     skipped |-> result.skipped]
          /\ lastNotice = "saved" =>
                EntriesOf(savedFile.lines) = result.wrongAnswers + result.skipped

\* C27 witness: a report is saved for a result with a correct question, and
\* with an emptied selection among its wrong and skipped questions
C27_Witness ==
    /\ modal = "results"
    /\ lastNotice = "saved"
    /\ result.correctAnswers > 0
    /\ \E q \in Asked : q.userAnswer = Arr(<<>>)

\* C28: in every ExamResult correctAnswers + wrongAnswers + skipped =
\* totalQuestions, the number of questions of the session, and the skipped
\* ones are the questions without a response: every question is counted once.
C28_CountsPartition ==
    result.kind = "result" =>
        /\ result.totalQuestions = Len(questions)
        /\ result.correctAnswers + result.wrongAnswers + result.skipped
               = result.totalQuestions
        /\ result.correctAnswers >= 0 /\ result.wrongAnswers >= 0 /\ result.skipped >= 0
        /\ result.skipped = Cardinality({k \in 1..Len(questions) : ResponseEmpty(questions[k])})

\* C28 witness: a result that counts a skipped and a wrong question
C28_Witness ==
    /\ result.kind = "result"
    /\ result.skipped > 0
    /\ result.wrongAnswers > 0

----------------------------------------------------------------------------
(* Claims about navigation, checked under SpecOrder *)

\* a step of Previous, Next, a click in the sidebar grid or a go-to number
Navigation ==
    \/ GoToPrevious
    \/ GoToNext
    \/ \E index \in 0..(MaxQuestions - 1) : GoToQuestion(index)
    \/ \E num \in 0..(MaxQuestions + 1) : JumpTo(num)

\* C29: in an open exam currentIndex stays within 0..questions.length-1;
\* Previous at the first question, Next at the last and a go-to number
\* outside 1..questions.length leave it unchanged; and no navigation step
\* changes a response.
C29_NavigationInBounds ==
    /\ [](modal = "exam" => currentIndex \in 0..(Len(questions) - 1))
    /\ [][/\ (GoToPrevious /\ currentIndex = 0) => currentIndex' = 0
          /\ (GoToNext /\ currentIndex = Len(questions) - 1) => currentIndex' = currentIndex
          /\ (\E num \in {0, Len(questions) + 1} : JumpTo(num)) => currentIndex' = currentIndex
          /\ (\E num \in 1..Len(questions) : JumpTo(num) /\ currentIndex' # num - 1) => FALSE
          /\ Navigation => questions' = questions]_vars

\* C29 witness: the exam stands on its last question, not the first, with a
\* response given to an earlier one
C29_Witness ==
    /\ modal = "exam"
    /\ currentIndex > 0
    /\ currentIndex = Len(questions) - 1
    /\ questions[1].userAnswer # Undefined

----------------------------------------------------------------------------
(* Claims about retaking a saved report, checked under SpecGrade *)

\* the wrong and skipped questions of the result, in order
RECURSIVE Mistakes(_)
Mistakes(qs) ==
    IF qs = <<>> THEN <<>>
    ELSE IF finalizeOne(qs[1]) \in {"wrong", "skipped"}
         THEN <<qs[1]>> \o Mistakes(Tail(qs))
         ELSE Mistakes(Tail(qs))

\* the fields of a question that a retake of the report is to give back
RetakeFields(q) ==
    [id |-> q.id, text |-> q.text, options |-> q.options,
     correctAnswers |-> q.correctAnswers, type |-> q.type]

\* C30: parsing the saved report yields, in order, exactly the wrong and
\* skipped questions of the result, each with the id, text, options,
\* correctAnswers and type it has in the result.
C30_ReportRoundTrip ==
    (modal = "results" /\ lastNotice = "saved") =>
        LET back == parseQuestions(reportContent(savedFile))
            kept == Mistakes(questions)
        IN  /\ Len(back) = Len(kept)
            /\ \A k \in 1..Len(back) : RetakeFields(back[k]) = RetakeFields(kept[k])

====
